---- MODULE Spec2Model ----
(***************************************************************************)
(* The interaction / placement / crafting core of the kitchen simulation   *)
(* (the final interaction script, src/unnamed/part_001): the attachment    *)
(* graph, the per-frame raycast controller, the drag/place state machine   *)
(* and the recipe engine, as a state machine with one action per handler.  *)
(* Coordinates are scaled integers: 1 unit = 0.0001 scene units.           *)
(***************************************************************************)
EXTENDS Integers, Sequences, FiniteSets, TLC

VARIABLES
    userData,                    \* obj -> GameObjectData (obj.userData)
    position,                    \* obj -> <<x, y, z>>    (obj.position)
    rotation,                    \* obj -> <<x, y, z>>    (obj.rotation, degrees)
    scene,                       \* the objects that are children of the scene
    draggableObjects,            \* membership lists (arrays)
    placeableObjects,
    interactableObjects,
    selectedObject,
    currentPlaceableObject,
    selectedObjectLastPosition,
    selectedObjectLastQuaternion,
    isMovingSelectedObject,
    interactingObject,
    recipes,                     \* the recipe table (static after setup)
    pending,                     \* suspended runRecipeLogic calls (await of a producer)
    played,                      \* sound cues emitted by the last handler
    raised,                      \* error thrown by the last handler ("none" if none)
    dragStart,                   \* history: positions/rotations at the Idle -> Dragging press
    represses,                   \* history: button-0 presses taken while already dragging
    spawned,                     \* history: objects created by recipe outputs so far
    calls,                       \* history: calls made, where the functions are called
                                 \* one by one
    skipped,                     \* history: why the last dragging tick passed over in-range hits
    before,                      \* history: the object store and the suspended calls at
                                 \* the call, if the last handler was an interact
                                 \* trigger on a surface (or, where the functions are
                                 \* called one by one, the last call and its arguments)
    bgmStarted,
    isBGMMuted,
    soundCache,                  \* the urls whose buffer sound.ts has cached
    bgmLoading,                  \* suspended playBGM calls (await of loadSound), each
                                 \* with the handler that made it
    sources,                     \* gains (x 10) of the looping sources started
    bgmGainNode                  \* index in sources of the one setBGMVolume controls,
                                 \* 0 for null

gameVars == << userData, position, rotation, scene, draggableObjects, placeableObjects,
               interactableObjects, selectedObject, currentPlaceableObject,
               selectedObjectLastPosition, selectedObjectLastQuaternion,
               isMovingSelectedObject, interactingObject, recipes, pending, played,
               raised, dragStart, represses, spawned, calls, skipped, before >>
soundVars == << bgmStarted, isBGMMuted, soundCache, bgmLoading, sources, bgmGainNode >>
vars == << gameVars, soundVars >>

-----------------------------------------------------------------------------
(* Bounds of the model *)

\* longest list of ray hits a tick is given
MaxHits == 2
\* longest list of ray hits a tick of the whole running system is given (the
\* lists of MaxHits hits go to the ticks of the drag on its own)
MaxKitchenHits == 1
\* objects the recipe outputs may create in one run
MaxSpawn == 1
\* recipe applications that may be suspended at the same time
MaxPending == 1
\* button-0 presses taken while a drag is already in progress, in one run
MaxRepress == 1
\* hits of one ray that lie beyond the distance thresholds
MaxBeyond == 1
\* objects that can be created after the kitchen's own
MaxObjects == 8
\* objects a surface holds when the recipe engine is studied on its own
MaxContents == 3
\* recipes in a recipe table, and ingredient entries in the whole table
MaxRecipes == 2
MaxIngredients == 2
\* largest minimumCount and useCount of an ingredient entry
MaxCount == 2
\* suspended calls of runRecipeLogic, and objects their outputs create, where
\* the recipe engine runs on its own
MaxRacing == 2
MaxUse == 1
MaxOutputs == 2
\* calls made where the functions are called one by one
MaxCalls == 3
\* drags ended in a session of the earlier script
MaxReleases == 2
\* playBGM calls suspended on the load of the music at one time
MaxLoading == 3
\* greatest height (y, in 1/10000) of an object in such a session
MaxHeight == 16000

-----------------------------------------------------------------------------
(* Values *)

Null == "null"
\* an absent capability record (placeableData: null, ...)
NullData == [isNull |-> TRUE]
NoError == "none"
\* a vector variable declared without a value
Undefined == << >>

Range(s) == { s[i] : i \in 1..Len(s) }

VAdd(a, b) == << a[1] + b[1], a[2] + b[2], a[3] + b[3] >>
VSub(a, b) == << a[1] - b[1], a[2] - b[2], a[3] - b[3] >>
Zero3 == << 0, 0, 0 >>

\* checkRaycast's distance thresholds (2.0)
maxInteractingObjDistance == 20000
maxSelectedObjDistance == 20000
maxPlaceableObjDistance == 20000

failedSoundPath == "./sounds/invalid-combination.mp3"

\* the names objects can have: the kitchen's, and those of the objects created
\* later ("obj" and the number of the object)
ObjectIds ==
    { "table", "plateSingle", "talenan", "knife" } \cup
    { "obj" \o ToString(n) : n \in 1..MaxObjects }

\* the mesh node the loader puts under a loaded object: ray hits name meshes
meshes == [obj \in ObjectIds |-> "mesh:" \o obj]
MeshOf(obj) == meshes[obj]

\* Object3D.parent: a mesh's parent is its loaded object, an object's is the scene
meshParent ==
    [node \in { meshes[obj] : obj \in ObjectIds } |->
        CHOOSE obj \in ObjectIds : meshes[obj] = node]
parent(node) == IF node \in DOMAIN meshParent THEN meshParent[node] ELSE Null

-----------------------------------------------------------------------------
(* The object store as one value w, so that a handler's calls compose:      *)
(* error is the exception a call threw (NoError if it returned).            *)

World == [userData |-> userData, position |-> position, rotation |-> rotation,
          scene |-> scene, draggableObjects |-> draggableObjects,
          placeableObjects |-> placeableObjects,
          interactableObjects |-> interactableObjects, error |-> NoError]

hasPlaceable(w, obj) ==
    /\ "placeableData" \in DOMAIN w.userData[obj]
    /\ w.userData[obj].placeableData # NullData
hasSelectable(w, obj) ==
    /\ "selectableData" \in DOMAIN w.userData[obj]
    /\ w.userData[obj].selectableData # NullData

RemoveAt(s, i) == SubSeq(s, 1, i - 1) \o SubSeq(s, i + 1, Len(s))

\* index of the first entry of s that is obj (0 if none): the scan loops' result
RECURSIVE IndexFrom(_, _, _)
IndexFrom(s, obj, i) ==
    IF i > Len(s) THEN 0
    ELSE IF s[i] = obj THEN i
    ELSE IndexFrom(s, obj, i + 1)

AlreadyPlaced == "Cannot place object on another one again!"

\* an attach without the test of placedOn
addObjOnPlaceableObject_again(w, placeableObj, obj) ==
    LET selectedData == w.userData[obj].selectableData
        newPlacedOnData == w.userData[placeableObj].placeableData
        placePos == VAdd(VAdd(<< w.position[obj][1], w.position[placeableObj][2],
                                 w.position[obj][3] >>,
                              selectedData.placeOffset),
                         newPlacedOnData.placeOffset)
        w1 == [w EXCEPT !.position[obj] = placePos]
        rel == VSub(w1.position[obj], w1.position[placeableObj])
        w2 == [w1 EXCEPT !.userData[placeableObj].placeableData.placedObject =
                             Append(@, obj),
                         !.userData[placeableObj].placeableData.lastPlaceObjectPos =
                             Append(@, rel)]
    IN [w2 EXCEPT !.userData[obj].selectableData.placedOn = placeableObj]

\* an attach that leaves the object where it is (the earlier script's)
addObjOnPlaceableObject_noReposition(w, placeableObj, obj) ==
    LET selectedData == w.userData[obj].selectableData
        rel == VSub(w.position[obj], w.position[placeableObj])
        w2 == [w EXCEPT !.userData[placeableObj].placeableData.placedObject =
                            Append(@, obj),
                        !.userData[placeableObj].placeableData.lastPlaceObjectPos =
                            Append(@, rel)]
    IN IF selectedData.placedOn # Null
       THEN [w EXCEPT !.error = AlreadyPlaced]
       ELSE [w2 EXCEPT !.userData[obj].selectableData.placedOn = placeableObj]

\* an attach that records the object's position in place of its offset
addObjOnPlaceableObject_absolute(w, placeableObj, obj) ==
    LET selectedData == w.userData[obj].selectableData
        newPlacedOnData == w.userData[placeableObj].placeableData
        placePos == VAdd(VAdd(<< w.position[obj][1], w.position[placeableObj][2],
                                 w.position[obj][3] >>,
                              selectedData.placeOffset),
                         newPlacedOnData.placeOffset)
        w1 == [w EXCEPT !.position[obj] = placePos]
        w2 == [w1 EXCEPT !.userData[placeableObj].placeableData.placedObject =
                             Append(@, obj),
                         !.userData[placeableObj].placeableData.lastPlaceObjectPos =
                             Append(@, w1.position[obj])]
    IN IF selectedData.placedOn # Null
       THEN [w EXCEPT !.error = AlreadyPlaced]
       ELSE [w2 EXCEPT !.userData[obj].selectableData.placedOn = placeableObj]

\* an attach that puts the new entries at the front of the host's paired lists
addObjOnPlaceableObject_front(w, placeableObj, obj) ==
    LET selectedData == w.userData[obj].selectableData
        newPlacedOnData == w.userData[placeableObj].placeableData
        placePos == VAdd(VAdd(<< w.position[obj][1], w.position[placeableObj][2],
                                 w.position[obj][3] >>,
                              selectedData.placeOffset),
                         newPlacedOnData.placeOffset)
        w1 == [w EXCEPT !.position[obj] = placePos]
        rel == VSub(w1.position[obj], w1.position[placeableObj])
        w2 == [w1 EXCEPT !.userData[placeableObj].placeableData.placedObject =
                             << obj >> \o @,
                         !.userData[placeableObj].placeableData.lastPlaceObjectPos =
                             << rel >> \o @]
    IN IF selectedData.placedOn # Null
       THEN [w EXCEPT !.error = "Cannot place object on another one again!"]
       ELSE [w2 EXCEPT !.userData[obj].selectableData.placedOn = placeableObj]

addObjOnPlaceableObject(w, placeableObj, obj) ==
    LET selectedData == w.userData[obj].selectableData
        newPlacedOnData == w.userData[placeableObj].placeableData
        placePos == VAdd(VAdd(<< w.position[obj][1], w.position[placeableObj][2],
                                 w.position[obj][3] >>,
                              selectedData.placeOffset),
                         newPlacedOnData.placeOffset)
        w1 == [w EXCEPT !.position[obj] = placePos]
        rel == VSub(w1.position[obj], w1.position[placeableObj])
        w2 == [w1 EXCEPT !.userData[placeableObj].placeableData.placedObject =
                             Append(@, obj),
                         !.userData[placeableObj].placeableData.lastPlaceObjectPos =
                             Append(@, rel)]
    IN IF selectedData.placedOn # Null
       THEN [w EXCEPT !.error = "Cannot place object on another one again!"]
       ELSE [w2 EXCEPT !.userData[obj].selectableData.placedOn = placeableObj]

\* a detach that clears placedOn and leaves the host's paired lists as they are
removeObjOnPlaceableObject_keepEntry(w, obj) ==
    IF w.userData[obj].selectableData.placedOn = Null THEN w
    ELSE [w EXCEPT !.userData[obj].selectableData.placedOn = Null]

\* a detach that drops the object's entry and the first recorded offset
removeObjOnPlaceableObject_firstOffset(w, obj) ==
    LET selectedData == w.userData[obj].selectableData
        host == selectedData.placedOn
        lastPlaceableData == w.userData[host].placeableData
        i == IndexFrom(lastPlaceableData.placedObject, obj, 1)
        w1 == IF i = 0 THEN w
              ELSE [w EXCEPT !.userData[host].placeableData.placedObject =
                                 RemoveAt(@, i),
                             !.userData[host].placeableData.lastPlaceObjectPos =
                                 RemoveAt(@, 1)]
    IN IF selectedData.placedOn = Null THEN w
       ELSE [w1 EXCEPT !.userData[obj].selectableData.placedOn = Null]

\* a detach that drops the object's entries and leaves placedOn set
removeObjOnPlaceableObject_keepPlacedOn(w, obj) ==
    LET selectedData == w.userData[obj].selectableData
        host == selectedData.placedOn
        lastPlaceableData == w.userData[host].placeableData
        i == IndexFrom(lastPlaceableData.placedObject, obj, 1)
    IN IF selectedData.placedOn = Null \/ i = 0 THEN w
       ELSE [w EXCEPT !.userData[host].placeableData.placedObject = RemoveAt(@, i),
                      !.userData[host].placeableData.lastPlaceObjectPos =
                          RemoveAt(@, i)]

removeObjOnPlaceableObject(w, obj) ==
    LET selectedData == w.userData[obj].selectableData
        host == selectedData.placedOn
        lastPlaceableData == w.userData[host].placeableData
        i == IndexFrom(lastPlaceableData.placedObject, obj, 1)
        w1 == IF i = 0 THEN w
              ELSE [w EXCEPT !.userData[host].placeableData.placedObject =
                                 RemoveAt(@, i),
                             !.userData[host].placeableData.lastPlaceObjectPos =
                                 RemoveAt(@, i)]
    IN IF selectedData.placedOn = Null THEN w
       ELSE [w1 EXCEPT !.userData[obj].selectableData.placedOn = Null]

\* The recursions below follow the code's; on a cyclic attachment graph the code
\* recurses until the engine's call stack overflows, which is the error here once
\* the depth exceeds the number of objects.
StackOverflow == "Maximum call stack size exceeded"
Depth(w) == Cardinality(DOMAIN w.userData) + 1

\* an update that moves the host's own entries and does not descend into them
RECURSIVE recursiveUpdateFrom_shallow(_, _, _, _)
recursiveUpdateFrom_shallow(w, placeableObj, i, fuel) ==
    LET gameObjData == w.userData[placeableObj]
    IN IF w.error # NoError \/ gameObjData.placeableData = NullData THEN w
       ELSE IF i > Len(gameObjData.placeableData.placedObject) THEN w
       ELSE LET obj == gameObjData.placeableData.placedObject[i]
                w1 == [w EXCEPT !.position[obj] =
                          VAdd(w.position[placeableObj],
                               gameObjData.placeableData.lastPlaceObjectPos[i])]
            IN recursiveUpdateFrom_shallow(w1, placeableObj, i + 1, fuel)

RECURSIVE recursiveUpdateFrom(_, _, _, _)
recursiveUpdateFrom(w, placeableObj, i, fuel) ==
    LET gameObjData == w.userData[placeableObj]
    IN IF w.error # NoError \/ gameObjData.placeableData = NullData THEN w
       ELSE IF i > Len(gameObjData.placeableData.placedObject) THEN w
       ELSE IF fuel = 0 THEN [w EXCEPT !.error = StackOverflow]
       ELSE LET obj == gameObjData.placeableData.placedObject[i]
                w1 == [w EXCEPT !.position[obj] =
                          VAdd(w.position[placeableObj],
                               gameObjData.placeableData.lastPlaceObjectPos[i])]
                w2 == recursiveUpdateFrom(w1, obj, 1, fuel - 1)
            IN recursiveUpdateFrom(w2, placeableObj, i + 1, fuel)

recursiveUpdatePlaceableObject(w, placeableObj) ==
    recursiveUpdateFrom(w, placeableObj, 1, Depth(w))

\* a collection that takes the listed objects and not theirs
getAllChildsFrom_childrenOnly(w, obj, i, fuel) ==
    LET gameObj == w.userData[obj]
    IN IF ~hasPlaceable(w, obj) THEN {}
       ELSE { gameObj.placeableData.placedObject[j] :
                j \in i..Len(gameObj.placeableData.placedObject) }

RECURSIVE getAllChildsFrom(_, _, _, _)
getAllChildsFrom(w, obj, i, fuel) ==
    LET gameObj == w.userData[obj]
    IN IF ~hasPlaceable(w, obj) THEN {}
       ELSE IF i > Len(gameObj.placeableData.placedObject) \/ fuel = 0 THEN {}
       ELSE LET child == gameObj.placeableData.placedObject[i]
                childSet == getAllChildsFrom(w, child, 1, fuel - 1)
            IN ({child} \cup childSet) \cup getAllChildsFrom(w, obj, i + 1, fuel)

getAllChildsSet(w, obj) == getAllChildsFrom(w, obj, 1, Depth(w))

-----------------------------------------------------------------------------
(* The spatial registry *)

\* a freshly loaded object: at the origin, unrotated, with empty userData
EmptyUserData == [empty |-> TRUE]

Loaded(w, obj) ==
    [w EXCEPT !.userData = (obj :> EmptyUserData) @@ @,
              !.position = (obj :> Zero3) @@ @,
              !.rotation = (obj :> Zero3) @@ @]

\* table.position.set(...); scene.add(table)
Placed(w, obj, pos, rot) ==
    [w EXCEPT !.position[obj] = pos, !.rotation[obj] = rot,
              !.scene = @ \cup {obj}]

asGameObject(data) ==
    IF /\ "placeableData" \in DOMAIN data
       /\ "selectableData" \in DOMAIN data
       /\ "interactableData" \in DOMAIN data
    THEN data
    ELSE NullData

MissingType == "New registered gameObj must have newTypeData not be undefined"

\* a registration that takes the type it is given whenever it is given one
Registered_retyped(data, newTypeId) ==
    IF asGameObject(data) # NullData
    THEN IF newTypeId = Null THEN asGameObject(data)
         ELSE [asGameObject(data) EXCEPT !.typeId = newTypeId]
    ELSE IF newTypeId = Null THEN NullData
    ELSE [typeId |-> newTypeId, placeableData |-> NullData,
          selectableData |-> NullData, interactableData |-> NullData]

\* the GameObjectData a registration works on: the existing one, or a new one
\* with the type given (NullData when the call throws for want of a type)
Registered(data, newTypeId) ==
    IF asGameObject(data) # NullData THEN asGameObject(data)
    ELSE IF newTypeId = Null THEN NullData
    ELSE [typeId |-> newTypeId, placeableData |-> NullData,
          selectableData |-> NullData, interactableData |-> NullData]

makeDraggable(w, obj, offsetPlace, newTypeId) ==
    LET w1 == [w EXCEPT !.draggableObjects = Append(@, obj)]
        gameObj == Registered(w.userData[obj], newTypeId)
    IN IF gameObj = NullData THEN [w1 EXCEPT !.error = MissingType]
       ELSE [w1 EXCEPT !.userData[obj] =
                [gameObj EXCEPT !.selectableData =
                    [placedOn |-> Null, placeOffset |-> offsetPlace]]]

makePlacable(w, obj, data, newTypeId) ==
    LET w1 == [w EXCEPT !.placeableObjects = Append(@, obj)]
        gameObj == Registered(w.userData[obj], newTypeId)
    IN IF gameObj = NullData THEN [w1 EXCEPT !.error = MissingType]
       ELSE [w1 EXCEPT !.userData[obj] =
                [gameObj EXCEPT !.placeableData =
                    [lastPlaceObjectPos |-> << >>, placedObject |-> << >>,
                     placeOffset |-> data.placeOffset]]]

makeInteractable(w, obj, data, newTypeId) ==
    LET w1 == [w EXCEPT !.interactableObjects = Append(@, obj)]
        gameObj == Registered(w.userData[obj], newTypeId)
    IN IF gameObj = NullData THEN [w1 EXCEPT !.error = MissingType]
       ELSE [w1 EXCEPT !.userData[obj] =
                [gameObj EXCEPT !.interactableData = data]]

RECURSIVE findTopAncestorFrom(_, _, _)
findTopAncestorFrom(list, obj, current) ==
    IF current = Null THEN obj
    ELSE IF current \in Range(list) THEN current
    ELSE findTopAncestorFrom(list, obj, parent(current))

findTopInteractableAncestor(obj) == findTopAncestorFrom(interactableObjects, obj, obj)
findTopDraggableAncestor(obj) == findTopAncestorFrom(draggableObjects, obj, obj)
findTopPlaceableAncestor(obj) == findTopAncestorFrom(placeableObjects, obj, obj)

-----------------------------------------------------------------------------
(* setupKitchen: the kitchen the session starts with.  The model keeps the  *)
(* table, the cutting board (talenan) and the plate of the source's nine    *)
(* objects; recipe outputs add objects that are draggable only.             *)

EmptyWorld ==
    [userData |-> << >>, position |-> << >>, rotation |-> << >>, scene |-> {},
     draggableObjects |-> << >>, placeableObjects |-> << >>,
     interactableObjects |-> << >>, error |-> NoError]

RECURSIVE AttachAll(_, _, _, _)
AttachAll(w, host, objs, i) ==
    IF i > Len(objs) THEN w
    ELSE AttachAll(addObjOnPlaceableObject(w, host, objs[i]), host, objs, i + 1)

setupKitchen ==
    LET w0 == Placed(Loaded(EmptyWorld, "table"), "table", << 0, 8500, 0 >>, Zero3)
        w1 == makePlacable(
                  makeDraggable(
                      Placed(Loaded(w0, "plateSingle"), "plateSingle",
                             << -2000, 0, 5000 >>, Zero3),
                      "plateSingle", << 0, 500, 0 >>, "piring"),
                  "plateSingle", [placeOffset |-> Zero3], Null)
        w2 == makeInteractable(
                  makePlacable(
                      makeDraggable(
                          Placed(Loaded(w1, "talenan"), "talenan",
                                 << 5000, 0, 2500 >>, Zero3),
                          "talenan", << 0, 150, 0 >>, "talenan"),
                      "talenan", [placeOffset |-> Zero3], Null),
                  "talenan", [interactInfo |-> "interact with Talenan"], Null)
        w3 == makePlacable(w2, "table", [placeOffset |-> << 0, 225, 0 >>], "meja")
    IN AttachAll(w3, "table", << "plateSingle", "talenan" >>, 1)

\* setupRecipe: the two recipes of the source (neither can match in the reduced
\* kitchen, which holds no "ayam-filet", "pisau" or "kubis")
setupRecipe ==
    << [ingredients |-> << [typeId |-> "ayam-filet", minimumCount |-> 1, useCount |-> 0],
                           [typeId |-> "pisau", minimumCount |-> 1, useCount |-> 0] >>,
        output |-> << [typeId |-> "ayam-dadu", offsetPlace |-> Zero3,
                       placeOffset |-> Zero3] >>,
        successSoundPath |-> "./sounds/chop.mp3"],
       [ingredients |-> << [typeId |-> "kubis", minimumCount |-> 1, useCount |-> 0],
                           [typeId |-> "pisau", minimumCount |-> 1, useCount |-> 0] >>,
        output |-> << [typeId |-> "kubis-potong", offsetPlace |-> Zero3,
                       placeOffset |-> Zero3] >>,
        successSoundPath |-> "./sounds/chop.mp3"] >>

-----------------------------------------------------------------------------
(* The recipe engine: runRecipeLogic *)

placedObjectOf(w, obj) == w.userData[obj].placeableData.placedObject

\* objectsInPlace: typeId -> number of attached objects of that type
objectsInPlace(w, obj) ==
    LET list == placedObjectOf(w, obj)
    IN [t \in { w.userData[list[i]].typeId : i \in 1..Len(list) } |->
           Cardinality({ i \in 1..Len(list) : w.userData[list[i]].typeId = t })]

\* the inner loop over a recipe's ingredients: TRUE when one makes it invalid
RECURSIVE invalidFrom(_, _, _)
invalidFrom(recipe, inPlace, j) ==
    IF j > Len(recipe.ingredients) THEN FALSE
    ELSE IF recipe.ingredients[j].typeId \notin DOMAIN inPlace THEN TRUE
    ELSE IF inPlace[recipe.ingredients[j].typeId] < recipe.ingredients[j].minimumCount
         THEN TRUE
    ELSE invalidFrom(recipe, inPlace, j + 1)

\* a matching test without the comparison of the two sizes
recipeMatches_anySize(recipe, inPlace) ==
    ~invalidFrom(recipe, inPlace, 1)

recipeMatches(recipe, inPlace) ==
    /\ Len(recipe.ingredients) = Cardinality(DOMAIN inPlace)
    /\ ~invalidFrom(recipe, inPlace, 1)

\* the outer loop: index of the recipe applied (0 if none matches)
RECURSIVE successRecipeFrom(_, _, _)
successRecipeFrom(table, inPlace, i) ==
    IF i > Len(table) THEN 0
    ELSE IF recipeMatches(table[i], inPlace) THEN i
    ELSE successRecipeFrom(table, inPlace, i + 1)

\* an outer loop that goes on to the last matching recipe
RECURSIVE successRecipe_last(_, _)
successRecipe_last(table, inPlace) ==
    IF Len(table) = 0 THEN 0
    ELSE IF recipeMatches(table[Len(table)], inPlace) THEN Len(table)
    ELSE successRecipe_last(SubSeq(table, 1, Len(table) - 1), inPlace)

successRecipe(table, inPlace) == successRecipeFrom(table, inPlace, 1)

\* first index a >= from of the surface's list holding an object of the type
RECURSIVE indexOfType(_, _, _, _)
indexOfType(w, obj, typeId, a) ==
    IF a > Len(placedObjectOf(w, obj)) THEN 0
    ELSE IF w.userData[placedObjectOf(w, obj)[a]].typeId = typeId THEN a
    ELSE indexOfType(w, obj, typeId, a + 1)

\* a pass of the k loop that takes the last object of the type
consumeOne_last(w, obj, typeId) ==
    LET list == placedObjectOf(w, obj)
        found == { a \in 1..Len(list) : w.userData[list[a]].typeId = typeId }
        used == list[CHOOSE a \in found : \A b \in found : b <= a]
    IN IF found = {} THEN w
       ELSE removeObjOnPlaceableObject([w EXCEPT !.scene = @ \ {used}], used)

\* one pass of the k loop: scene.remove and detach of the first object of the type
consumeOne(w, obj, typeId) ==
    LET a == indexOfType(w, obj, typeId, 1)
        used == placedObjectOf(w, obj)[a]
    IN IF a = 0 THEN w
       ELSE removeObjOnPlaceableObject([w EXCEPT !.scene = @ \ {used}], used)

RECURSIVE consumeIngredient(_, _, _, _)
consumeIngredient(w, obj, ingredient, k) ==
    IF k >= ingredient.useCount THEN w
    ELSE consumeIngredient(consumeOne(w, obj, ingredient.typeId), obj, ingredient, k + 1)

RECURSIVE consumeIngredients(_, _, _, _)
consumeIngredients(w, obj, recipe, j) ==
    IF j > Len(recipe.ingredients) THEN w
    ELSE consumeIngredients(consumeIngredient(w, obj, recipe.ingredients[j], 0),
                            obj, recipe, j + 1)

\* Object3D.id of the next object created
NewId(w) == "obj" \o ToString(Cardinality(DOMAIN w.userData) + 1)

\* an output producer's body: load, scene.add, makeDraggable
produce(w, output) ==
    makeDraggable(Placed(Loaded(w, NewId(w)), NewId(w), Zero3, Zero3),
                  NewId(w), output.offsetPlace, output.typeId)

\* the body of the output loop after the await: position the object, attach it
attachOutput(w, obj, output) ==
    LET spawnedObj == NewId(w)
        w1 == produce(w, output)
        spawnPos == VAdd(VAdd(w1.position[obj], output.placeOffset),
                         w1.userData[obj].placeableData.placeOffset)
        w2 == [w1 EXCEPT !.position[spawnedObj] = spawnPos]
    IN IF w1.error # NoError THEN w1
       ELSE addObjOnPlaceableObject(w2, obj, spawnedObj)

successCue(recipe) ==
    IF recipe.successSoundPath # ""
    THEN << [path |-> recipe.successSoundPath, volume |-> 8] >>
    ELSE << >>

\* a no-match outcome that plays nothing
failureCue_silent == << >>

failureCue == << [path |-> failedSoundPath, volume |-> 6] >>

-----------------------------------------------------------------------------
(* Inputs of the handlers *)

\* two more recipes, registered after the source's two, that the reduced kitchen
\* can trigger: one that uses nothing up (as the source's two) and has an
\* output, and one that consumes an ingredient
kitchenRecipes ==
    << [ingredients |-> << [typeId |-> "piring", minimumCount |-> 1, useCount |-> 0] >>,
        output |-> << [typeId |-> "ayam-dadu", offsetPlace |-> Zero3,
                       placeOffset |-> Zero3] >>,
        successSoundPath |-> "./sounds/chop.mp3"],
       [ingredients |-> << [typeId |-> "piring", minimumCount |-> 1, useCount |-> 0],
                           [typeId |-> "ayam-dadu", minimumCount |-> 1, useCount |-> 1] >>,
        output |-> << >>,
        successSoundPath |-> "./sounds/chop.mp3"] >>

\* distances of a hit point from the camera: 2.0 (on the threshold) and 3.0
Distances == { 20000, 30000 }
\* where on an object the ray hits it, relative to the object's position
HitOffsets == { << 0, 50, 0 >> }
\* camera.position + cameraDirection * 1.0
CameraReach == { << 0, 15000, 0 >> }
Buttons == { 0, 2 }

\* the objects a tick casts its ray against: the placeable list while dragging,
\* the draggable and the interactable lists otherwise
RayTargets ==
    IF isMovingSelectedObject THEN Range(placeableObjects)
    ELSE Range(draggableObjects) \cup Range(interactableObjects)

Hits ==
    { [object |-> MeshOf(o), point |-> VAdd(position[o], at), distance |-> d] :
        o \in RayTargets, at \in HitOffsets, d \in Distances }

\* what the raycaster returns: hits sorted nearest first, of which at most
\* MaxBeyond lie beyond the distance thresholds
RayHitLists ==
    { hits \in UNION { [1..n -> Hits] : n \in 0..MaxHits } :
        /\ \A i \in 1..(Len(hits) - 1) : hits[i].distance <= hits[i + 1].distance
        /\ Cardinality({ i \in 1..Len(hits) :
                            hits[i].distance > maxPlaceableObjDistance }) <= MaxBeyond }

\* raycaster.intersectObjects(list, true): the hits on a listed object or below it
intersectObjects(list, rayHits) ==
    SelectSeq(rayHits, LAMBDA h : findTopAncestorFrom(list, Null, h.object) # Null)

-----------------------------------------------------------------------------
(* The handlers *)

NoTrigger == [none |-> TRUE]

worldVars == << userData, position, rotation, scene, draggableObjects,
                placeableObjects, interactableObjects >>
dragVars == << selectedObject, currentPlaceableObject, selectedObjectLastPosition,
               selectedObjectLastQuaternion, isMovingSelectedObject >>

SetWorld(w) ==
    /\ userData' = w.userData
    /\ position' = w.position
    /\ rotation' = w.rotation
    /\ scene' = w.scene
    /\ draggableObjects' = w.draggableObjects
    /\ placeableObjects' = w.placeableObjects
    /\ interactableObjects' = w.interactableObjects

\* a selection loop that takes the nearest hit at any distance
topWithinFrom_anyDistance(intersects, maxDistance, i) ==
    IF i > Len(intersects) THEN 0 ELSE 1

\* the two selection loops: each pass looks at hit 0 again
RECURSIVE topWithinFrom(_, _, _)
topWithinFrom(intersects, maxDistance, i) ==
    IF i > Len(intersects) THEN 0
    ELSE IF intersects[1].distance > maxDistance
         THEN topWithinFrom(intersects, maxDistance, i + 1)
    ELSE 1

\* the placement loop without its test against the descendant set
RECURSIVE placeScanFrom_noIgnore(_, _, _, _)
placeScanFrom_noIgnore(intersects, selected, ignoreId, i) ==
    IF i > Len(intersects) THEN 0
    ELSE IF intersects[i].distance > maxPlaceableObjDistance
         THEN placeScanFrom_noIgnore(intersects, selected, ignoreId, i + 1)
    ELSE IF findTopPlaceableAncestor(intersects[i].object) = selected
         THEN placeScanFrom_noIgnore(intersects, selected, ignoreId, i + 1)
    ELSE i

\* the placement loop without its test against the dragged object itself
RECURSIVE placeScanFrom_noSelf(_, _, _, _)
placeScanFrom_noSelf(intersects, selected, ignoreId, i) ==
    IF i > Len(intersects) THEN 0
    ELSE IF intersects[i].distance > maxPlaceableObjDistance
         THEN placeScanFrom_noSelf(intersects, selected, ignoreId, i + 1)
    ELSE IF findTopPlaceableAncestor(intersects[i].object) \in ignoreId
         THEN placeScanFrom_noSelf(intersects, selected, ignoreId, i + 1)
    ELSE i

\* a placement loop that looks at the nearest hit only
RECURSIVE placeScanFrom_nearestOnly(_, _, _, _)
placeScanFrom_nearestOnly(intersects, selected, ignoreId, i) ==
    IF i > Len(intersects) \/ i > 1 THEN 0
    ELSE IF intersects[i].distance > maxPlaceableObjDistance
         THEN placeScanFrom_nearestOnly(intersects, selected, ignoreId, i + 1)
    ELSE IF findTopPlaceableAncestor(intersects[i].object) = selected
         THEN placeScanFrom_nearestOnly(intersects, selected, ignoreId, i + 1)
    ELSE IF findTopPlaceableAncestor(intersects[i].object) \in ignoreId
         THEN placeScanFrom_nearestOnly(intersects, selected, ignoreId, i + 1)
    ELSE i

\* the placement loop: index of the first eligible hit (0 if none)
RECURSIVE placeScanFrom(_, _, _, _)
placeScanFrom(intersects, selected, ignoreId, i) ==
    IF i > Len(intersects) THEN 0
    ELSE IF intersects[i].distance > maxPlaceableObjDistance
         THEN placeScanFrom(intersects, selected, ignoreId, i + 1)
    ELSE IF findTopPlaceableAncestor(intersects[i].object) = selected
         THEN placeScanFrom(intersects, selected, ignoreId, i + 1)
    ELSE IF findTopPlaceableAncestor(intersects[i].object) \in ignoreId
         THEN placeScanFrom(intersects, selected, ignoreId, i + 1)
    ELSE i

\* the reasons for which the placement loop passed over in-range hits 1..n
passedOver(intersects, selected, ignoreId, n) ==
    { why \in { "self", "descendant" } :
        \E k \in 1..n :
            /\ intersects[k].distance <= maxPlaceableObjDistance
            /\ IF why = "self"
               THEN findTopPlaceableAncestor(intersects[k].object) = selected
               ELSE /\ findTopPlaceableAncestor(intersects[k].object) # selected
                    /\ findTopPlaceableAncestor(intersects[k].object) \in ignoreId }

\* the position the dragged object is given by a dragging tick
previewPosition(w, selected, candidate, point, reach) ==
    IF candidate = Null
    THEN VAdd(reach, w.userData[selected].selectableData.placeOffset)
    ELSE VAdd(VAdd(<< point[1], w.position[candidate][2], point[3] >>,
                   w.userData[candidate].placeableData.placeOffset),
              w.userData[selected].selectableData.placeOffset)

\* a tick that takes the dragged object off its host as soon as it moves it
checkRaycast_detaching(rayHits, reach) ==
    /\ played' = << >>
    /\ before' = NoTrigger
    /\ UNCHANGED << recipes, pending, dragStart, represses, spawned, calls >>
    /\ IF ~isMovingSelectedObject
       THEN LET draggableIntersects == intersectObjects(draggableObjects, rayHits)
                interactabeIntersects == intersectObjects(interactableObjects, rayHits)
                d == topWithinFrom(draggableIntersects, maxSelectedObjDistance, 1)
                a == topWithinFrom(interactabeIntersects, maxInteractingObjDistance, 1)
            IN /\ selectedObject' =
                     IF d = 0 THEN Null
                     ELSE findTopDraggableAncestor(draggableIntersects[d].object)
               /\ interactingObject' =
                     IF a = 0 THEN Null
                     ELSE findTopInteractableAncestor(interactabeIntersects[a].object)
               /\ raised' = NoError
               /\ skipped' = {}
               /\ UNCHANGED << worldVars, currentPlaceableObject,
                               selectedObjectLastPosition,
                               selectedObjectLastQuaternion, isMovingSelectedObject >>
       ELSE IF selectedObject = Null
       THEN /\ interactingObject' = Null
            /\ raised' = "Unknown error"
            /\ skipped' = {}
            /\ UNCHANGED << worldVars, dragVars >>
       ELSE LET placeableIntersects == intersectObjects(placeableObjects, rayHits)
                ignoreId == getAllChildsSet(World, selectedObject)
                i == placeScanFrom(placeableIntersects, selectedObject, ignoreId, 1)
                candidate == IF i = 0 THEN Null
                             ELSE findTopPlaceableAncestor(placeableIntersects[i].object)
                point == IF i = 0 THEN Zero3 ELSE placeableIntersects[i].point
                selectedGoPosition ==
                    previewPosition(World, selectedObject, candidate, point, reach)
                w1 == [removeObjOnPlaceableObject(World, selectedObject)
                          EXCEPT !.position[selectedObject] = selectedGoPosition]
                w2 == recursiveUpdatePlaceableObject(w1, selectedObject)
            IN /\ interactingObject' = Null
               /\ currentPlaceableObject' = candidate
               /\ skipped' = passedOver(placeableIntersects, selectedObject, ignoreId,
                                        IF i = 0 THEN Len(placeableIntersects) ELSE i - 1)
               /\ SetWorld(w2)
               /\ raised' = w2.error
               /\ UNCHANGED << selectedObject, selectedObjectLastPosition,
                               selectedObjectLastQuaternion, isMovingSelectedObject >>

checkRaycast(rayHits, reach) ==
    /\ played' = << >>
    /\ before' = NoTrigger
    /\ UNCHANGED << recipes, pending, dragStart, represses, spawned, calls >>
    /\ IF ~isMovingSelectedObject
       THEN LET draggableIntersects == intersectObjects(draggableObjects, rayHits)
                interactabeIntersects == intersectObjects(interactableObjects, rayHits)
                d == topWithinFrom(draggableIntersects, maxSelectedObjDistance, 1)
                a == topWithinFrom(interactabeIntersects, maxInteractingObjDistance, 1)
            IN /\ selectedObject' =
                     IF d = 0 THEN Null
                     ELSE findTopDraggableAncestor(draggableIntersects[d].object)
               /\ interactingObject' =
                     IF a = 0 THEN Null
                     ELSE findTopInteractableAncestor(interactabeIntersects[a].object)
               /\ raised' = NoError
               /\ skipped' = {}
               /\ UNCHANGED << worldVars, currentPlaceableObject,
                               selectedObjectLastPosition,
                               selectedObjectLastQuaternion, isMovingSelectedObject >>
       ELSE IF selectedObject = Null
       THEN /\ interactingObject' = Null
            /\ raised' = "Unknown error"
            /\ skipped' = {}
            /\ UNCHANGED << worldVars, dragVars >>
       ELSE LET placeableIntersects == intersectObjects(placeableObjects, rayHits)
                ignoreId == getAllChildsSet(World, selectedObject)
                i == placeScanFrom(placeableIntersects, selectedObject, ignoreId, 1)
                candidate == IF i = 0 THEN Null
                             ELSE findTopPlaceableAncestor(placeableIntersects[i].object)
                point == IF i = 0 THEN Zero3 ELSE placeableIntersects[i].point
                selectedGoPosition ==
                    previewPosition(World, selectedObject, candidate, point, reach)
                w1 == [World EXCEPT !.position[selectedObject] = selectedGoPosition]
                w2 == recursiveUpdatePlaceableObject(w1, selectedObject)
            IN /\ interactingObject' = Null
               /\ currentPlaceableObject' = candidate
               /\ skipped' = passedOver(placeableIntersects, selectedObject, ignoreId,
                                        IF i = 0 THEN Len(placeableIntersects) ELSE i - 1)
               /\ SetWorld(w2)
               /\ raised' = w2.error
               /\ UNCHANGED << selectedObject, selectedObjectLastPosition,
                               selectedObjectLastQuaternion, isMovingSelectedObject >>

NoDrag == [none |-> TRUE]

\* a press that does not test the pointer lock
onPointerDown_unlocked(button, isLocked) ==
    /\ played' = << >>
    /\ raised' = NoError
    /\ before' = NoTrigger
    /\ UNCHANGED << worldVars, recipes, pending, selectedObject,
                    currentPlaceableObject, interactingObject, spawned, calls, skipped >>
    /\ IF button # 0 \/ selectedObject = Null
       THEN UNCHANGED << isMovingSelectedObject, selectedObjectLastPosition,
                         selectedObjectLastQuaternion, dragStart, represses >>
       ELSE /\ isMovingSelectedObject => represses < MaxRepress
            /\ represses' = IF isMovingSelectedObject THEN represses + 1 ELSE represses
            /\ isMovingSelectedObject' = TRUE
            /\ selectedObjectLastPosition' = position[selectedObject]
            /\ selectedObjectLastQuaternion' = rotation[selectedObject]
            /\ dragStart' = IF isMovingSelectedObject THEN dragStart
                            ELSE [position |-> position, rotation |-> rotation]

\* a press that starts a drag whether an object is selected or not
onPointerDown_noSelection(button, isLocked) ==
    /\ played' = << >>
    /\ raised' = NoError
    /\ before' = NoTrigger
    /\ UNCHANGED << worldVars, recipes, pending, selectedObject,
                    currentPlaceableObject, interactingObject, spawned, calls, skipped >>
    /\ IF ~isLocked \/ button # 0
       THEN UNCHANGED << isMovingSelectedObject, selectedObjectLastPosition,
                         selectedObjectLastQuaternion, dragStart, represses >>
       ELSE /\ isMovingSelectedObject => represses < MaxRepress
            /\ represses' = IF isMovingSelectedObject THEN represses + 1 ELSE represses
            /\ isMovingSelectedObject' = TRUE
            /\ selectedObjectLastPosition' =
                  IF selectedObject = Null THEN selectedObjectLastPosition
                  ELSE position[selectedObject]
            /\ selectedObjectLastQuaternion' =
                  IF selectedObject = Null THEN selectedObjectLastQuaternion
                  ELSE rotation[selectedObject]
            /\ dragStart' = IF isMovingSelectedObject THEN dragStart
                            ELSE [position |-> position, rotation |-> rotation]

onPointerDown(button, isLocked) ==
    /\ played' = << >>
    /\ raised' = NoError
    /\ before' = NoTrigger
    /\ UNCHANGED << worldVars, recipes, pending, selectedObject,
                    currentPlaceableObject, interactingObject, spawned, calls, skipped >>
    /\ IF ~isLocked \/ button # 0 \/ selectedObject = Null
       THEN UNCHANGED << isMovingSelectedObject, selectedObjectLastPosition,
                         selectedObjectLastQuaternion, dragStart, represses >>
       ELSE /\ isMovingSelectedObject => represses < MaxRepress
            /\ represses' = IF isMovingSelectedObject THEN represses + 1 ELSE represses
            /\ isMovingSelectedObject' = TRUE
            /\ selectedObjectLastPosition' = position[selectedObject]
            /\ selectedObjectLastQuaternion' = rotation[selectedObject]
            /\ dragStart' = IF isMovingSelectedObject THEN dragStart
                            ELSE [position |-> position, rotation |-> rotation]

\* the two branches of a release that ends a drag
rollback(w, selected, lastPosition, lastQuaternion) ==
    recursiveUpdatePlaceableObject(
        [w EXCEPT !.position[selected] = lastPosition,
                  !.rotation[selected] = lastQuaternion],
        selected)

\* a commit that attaches without detaching first
commit_attachOnly(w, selected, candidate) ==
    addObjOnPlaceableObject(w, candidate, selected)

commit(w, selected, candidate) ==
    addObjOnPlaceableObject(removeObjOnPlaceableObject(w, selected), candidate, selected)

\* a release that ends the drag whatever the button
onPointerUp_anyButton(button) ==
    /\ played' = << >>
    /\ before' = NoTrigger
    /\ UNCHANGED << recipes, pending, selectedObject, interactingObject,
                    selectedObjectLastPosition, selectedObjectLastQuaternion,
                    represses, spawned, calls >>
    /\ IF ~isMovingSelectedObject \/ selectedObject = Null
       THEN /\ raised' = NoError
            /\ UNCHANGED << worldVars, isMovingSelectedObject,
                            currentPlaceableObject, dragStart, skipped >>
       ELSE LET w == IF currentPlaceableObject = Null
                     THEN rollback(World, selectedObject, selectedObjectLastPosition,
                                   selectedObjectLastQuaternion)
                     ELSE commit(World, selectedObject, currentPlaceableObject)
            IN /\ isMovingSelectedObject' = FALSE
               /\ SetWorld(w)
               /\ raised' = w.error
               \* a throw leaves the function before the candidate is cleared
               /\ currentPlaceableObject' =
                     IF w.error = NoError THEN Null ELSE currentPlaceableObject
               /\ dragStart' = NoDrag
               /\ skipped' = {}

\* a release that leaves the placement candidate as it is
onPointerUp_keepCandidate(button) ==
    /\ played' = << >>
    /\ before' = NoTrigger
    /\ UNCHANGED << recipes, pending, selectedObject, interactingObject,
                    selectedObjectLastPosition, selectedObjectLastQuaternion,
                    represses, spawned, calls, currentPlaceableObject >>
    /\ IF ~isMovingSelectedObject \/ button # 0 \/ selectedObject = Null
       THEN /\ raised' = NoError
            /\ UNCHANGED << worldVars, isMovingSelectedObject, dragStart, skipped >>
       ELSE LET w == IF currentPlaceableObject = Null
                     THEN rollback(World, selectedObject, selectedObjectLastPosition,
                                   selectedObjectLastQuaternion)
                     ELSE commit(World, selectedObject, currentPlaceableObject)
            IN /\ isMovingSelectedObject' = FALSE
               /\ SetWorld(w)
               /\ raised' = w.error
               /\ dragStart' = NoDrag
               /\ skipped' = {}

onPointerUp(button) ==
    /\ played' = << >>
    /\ before' = NoTrigger
    /\ UNCHANGED << recipes, pending, selectedObject, interactingObject,
                    selectedObjectLastPosition, selectedObjectLastQuaternion,
                    represses, spawned, calls >>
    /\ IF ~isMovingSelectedObject \/ button # 0 \/ selectedObject = Null
       THEN /\ raised' = NoError
            /\ UNCHANGED << worldVars, isMovingSelectedObject,
                            currentPlaceableObject, dragStart, skipped >>
       ELSE LET w == IF currentPlaceableObject = Null
                     THEN rollback(World, selectedObject, selectedObjectLastPosition,
                                   selectedObjectLastQuaternion)
                     ELSE commit(World, selectedObject, currentPlaceableObject)
            IN /\ isMovingSelectedObject' = FALSE
               /\ SetWorld(w)
               /\ raised' = w.error
               \* a throw leaves the function before the candidate is cleared
               /\ currentPlaceableObject' =
                     IF w.error = NoError THEN Null ELSE currentPlaceableObject
               /\ dragStart' = NoDrag
               /\ skipped' = {}

\* the objects the suspended calls will still create
RECURSIVE outstandingFrom(_)
outstandingFrom(k) ==
    IF k > Len(pending) THEN 0
    ELSE (Len(recipes[pending[k].recipe].output) - pending[k].j + 1)
         + outstandingFrom(k + 1)

outstanding == outstandingFrom(1)

\* a call that plays the success cue before its outputs are constructed
runRecipeLogic_earlyCue(obj) ==
    LET inPlace == objectsInPlace(World, obj)
        r == successRecipe(recipes, inPlace)
        w == consumeIngredients(World, obj, recipes[r], 1)
    IN IF r = 0
       THEN /\ played' = failureCue
            /\ UNCHANGED << worldVars, pending >>
       ELSE /\ SetWorld(w)
            /\ played' = successCue(recipes[r])
            /\ IF Len(recipes[r].output) = 0
               THEN UNCHANGED pending
               ELSE pending' = Append(pending, [obj |-> obj, recipe |-> r, j |-> 1])

\* runRecipeLogic up to its first await: the match, the consumption, and either
\* the cue (no output to wait for) or the suspension on the first producer
runRecipeLogic(obj) ==
    LET inPlace == objectsInPlace(World, obj)
        r == successRecipe(recipes, inPlace)
        w == consumeIngredients(World, obj, recipes[r], 1)
    IN IF r = 0
       THEN /\ played' = failureCue
            /\ UNCHANGED << worldVars, pending >>
       ELSE /\ SetWorld(w)
            /\ IF Len(recipes[r].output) = 0
               THEN /\ played' = successCue(recipes[r])
                    /\ UNCHANGED pending
               ELSE /\ played' = << >>
                    /\ pending' = Append(pending, [obj |-> obj, recipe |-> r, j |-> 1])

\* a trigger that is dropped while an earlier call is suspended
handleKeyDown_busy ==
    /\ raised' = NoError
    /\ UNCHANGED << dragVars, interactingObject, recipes, dragStart, represses,
                    spawned, calls, skipped >>
    /\ IF interactingObject = Null
       THEN /\ played' = << >>
            /\ before' = NoTrigger
            /\ UNCHANGED << worldVars, pending >>
       ELSE /\ before' = [obj |-> interactingObject, world |-> World,
                            pending |-> pending]
            /\ IF pending # << >>
               THEN /\ played' = << >>
                    /\ UNCHANGED << worldVars, pending >>
               ELSE runRecipeLogic(interactingObject)

\* handleKeyDown, case "KeyF": the interact trigger
handleKeyDown ==
    /\ raised' = NoError
    /\ UNCHANGED << dragVars, interactingObject, recipes, dragStart, represses,
                    spawned, calls, skipped >>
    /\ IF interactingObject = Null
       THEN /\ played' = << >>
            /\ before' = NoTrigger
            /\ UNCHANGED << worldVars, pending >>
       ELSE /\ before' = [obj |-> interactingObject, world |-> World,
                            pending |-> pending]
            /\ runRecipeLogic(interactingObject)

\* a completion that leaves the output unattached when the surface is in hand
outputLoaded_notInHand(k) ==
    LET call == pending[k]
        recipe == recipes[call.recipe]
        w == IF isMovingSelectedObject /\ selectedObject = call.obj
             THEN produce(World, recipe.output[call.j])
             ELSE attachOutput(World, call.obj, recipe.output[call.j])
    IN /\ SetWorld(w)
       /\ raised' = w.error
       /\ spawned' = spawned + 1
       /\ UNCHANGED calls
       /\ before' = NoTrigger
       /\ UNCHANGED << dragVars, interactingObject, recipes, dragStart, represses,
                       skipped >>
       /\ IF w.error # NoError
          THEN /\ pending' = RemoveAt(pending, k)
               /\ played' = << >>
          ELSE IF call.j = Len(recipe.output)
          THEN /\ pending' = RemoveAt(pending, k)
               /\ played' = successCue(recipe)
          ELSE /\ pending' = [pending EXCEPT ![k].j = call.j + 1]
               /\ played' = << >>

\* the loader resolves for suspended call k: runRecipeLogic resumes after its
\* await, attaches the output, and goes on to the next producer or to the cue
outputLoaded(k) ==
    LET call == pending[k]
        recipe == recipes[call.recipe]
        w == attachOutput(World, call.obj, recipe.output[call.j])
    IN /\ SetWorld(w)
       /\ raised' = w.error
       /\ spawned' = spawned + 1
       /\ UNCHANGED calls
       /\ before' = NoTrigger
       /\ UNCHANGED << dragVars, interactingObject, recipes, dragStart, represses,
                       skipped >>
       /\ IF w.error # NoError
          THEN /\ pending' = RemoveAt(pending, k)
               /\ played' = << >>
          ELSE IF call.j = Len(recipe.output)
          THEN /\ pending' = RemoveAt(pending, k)
               /\ played' = successCue(recipe)
          ELSE /\ pending' = [pending EXCEPT ![k].j = call.j + 1]
               /\ played' = << >>

LoadFailed == "load failed"

\* a rejection after which the call goes on to the failure cue
outputFailed_failureCue(k) ==
    /\ pending' = RemoveAt(pending, k)
    /\ raised' = LoadFailed
    /\ played' = failureCue
    /\ before' = NoTrigger
    /\ UNCHANGED << worldVars, dragVars, interactingObject, recipes, dragStart,
                    represses, spawned, calls, skipped >>

\* the loader rejects for suspended call k: runRecipeLogic ends with that error
outputFailed(k) ==
    /\ pending' = RemoveAt(pending, k)
    /\ raised' = LoadFailed
    /\ played' = << >>
    /\ before' = NoTrigger
    /\ UNCHANGED << worldVars, dragVars, interactingObject, recipes, dragStart,
                    represses, spawned, calls, skipped >>

-----------------------------------------------------------------------------
(* The background music: playBGM, the R key, the music button, and          *)
(* sound.ts's playBackgroundMusic and setBGMVolume.  A handler runs with the *)
(* continuations its promises schedule, up to an await of loadSound.         *)

BgmUrl == "./sounds/testsound.mp3"

InitSound ==
    /\ bgmStarted = FALSE
    /\ isBGMMuted = FALSE
    /\ soundCache = {}
    /\ bgmLoading = << >>
    /\ sources = << >>
    /\ bgmGainNode = 0

\* setBGMVolume(value) on the sources given
setBGMVolume(playing, node, value) ==
    IF node = 0 THEN playing ELSE [playing EXCEPT ![node] = value]

\* playBGM from its await on: playBackgroundMusic with the buffer there starts a
\* new looping source (gain 1.0) and makes it the controlled one, then
\* setBGMVolume(0.2) and bgmStarted = true; the click handler goes on to
\* isBGMMuted = false
bgmResumed(from) ==
    /\ sources' = setBGMVolume(Append(sources, 10), Len(sources) + 1, 2)
    /\ bgmGainNode' = Len(sources) + 1
    /\ bgmStarted' = TRUE
    /\ isBGMMuted' = IF from = "click" THEN FALSE ELSE isBGMMuted

\* playBGM, called by the handler from
playBGM(from) ==
    IF bgmStarted THEN UNCHANGED soundVars
    ELSE IF BgmUrl \in soundCache
    THEN bgmResumed(from) /\ UNCHANGED << soundCache, bgmLoading >>
    ELSE /\ bgmLoading' = Append(bgmLoading, from)
         /\ UNCHANGED << bgmStarted, isBGMMuted, soundCache, sources, bgmGainNode >>

\* the music button's click handler
onMusicClick ==
    IF ~bgmStarted THEN playBGM("click")
    ELSE /\ sources' = setBGMVolume(sources, bgmGainNode, IF isBGMMuted THEN 2 ELSE 0)
         /\ isBGMMuted' = ~isBGMMuted
         /\ UNCHANGED << bgmStarted, soundCache, bgmLoading, bgmGainNode >>

\* loadSound resolves for suspended call k
bgmLoaded(k) ==
    /\ soundCache' = soundCache \cup {BgmUrl}
    /\ bgmLoading' = RemoveAt(bgmLoading, k)
    /\ bgmResumed(bgmLoading[k])

\* loadSound rejects for suspended call k: playBGM ends with that error
bgmLoadFailed(k) ==
    /\ bgmLoading' = RemoveAt(bgmLoading, k)
    /\ UNCHANGED << bgmStarted, isBGMMuted, soundCache, sources, bgmGainNode >>

\* handleKeyDown, case "KeyR"
KeyR ==
    /\ playBGM("key")
    /\ Len(bgmLoading') <= MaxLoading
    /\ UNCHANGED gameVars
Click ==
    /\ onMusicClick
    /\ Len(bgmLoading') <= MaxLoading
    /\ UNCHANGED gameVars
BgmLoaded == (\E k \in 1..Len(bgmLoading) : bgmLoaded(k)) /\ UNCHANGED gameVars
BgmLoadFailed == (\E k \in 1..Len(bgmLoading) : bgmLoadFailed(k)) /\ UNCHANGED gameVars
\* preloadSoundAssets caches the music
Preloaded ==
    /\ BgmUrl \notin soundCache
    /\ soundCache' = soundCache \cup {BgmUrl}
    /\ UNCHANGED << bgmStarted, isBGMMuted, bgmLoading, sources, bgmGainNode >>
    /\ UNCHANGED gameVars

-----------------------------------------------------------------------------
(* The running system: setupKitchen, then any interleaving of the handlers *)

Init ==
    /\ userData = setupKitchen.userData
    /\ position = setupKitchen.position
    /\ rotation = setupKitchen.rotation
    /\ scene = setupKitchen.scene
    /\ draggableObjects = setupKitchen.draggableObjects
    /\ placeableObjects = setupKitchen.placeableObjects
    /\ interactableObjects = setupKitchen.interactableObjects
    /\ selectedObject = Null
    /\ currentPlaceableObject = Null
    /\ selectedObjectLastPosition = Undefined
    /\ selectedObjectLastQuaternion = Undefined
    /\ isMovingSelectedObject = FALSE
    /\ interactingObject = Null
    /\ recipes = setupRecipe \o kitchenRecipes
    /\ pending = << >>
    /\ played = << >>
    /\ raised = NoError
    /\ dragStart = NoDrag
    /\ represses = 0
    /\ spawned = 0
    /\ calls = 0
    /\ skipped = {}
    /\ before = NoTrigger
    /\ InitSound

Tick ==
    /\ \E rayHits \in RayHitLists, reach \in CameraReach : checkRaycast(rayHits, reach)
    /\ UNCHANGED soundVars
KitchenTick ==
    /\ \E rayHits \in { hits \in RayHitLists : Len(hits) <= MaxKitchenHits },
          reach \in CameraReach : checkRaycast(rayHits, reach)
    /\ UNCHANGED soundVars
Press ==
    /\ \E button \in Buttons, isLocked \in BOOLEAN : onPointerDown(button, isLocked)
    /\ UNCHANGED soundVars
Release ==
    /\ \E button \in Buttons : onPointerUp(button)
    /\ UNCHANGED soundVars
Interact ==
    /\ handleKeyDown
    /\ Len(pending') <= MaxPending
    /\ spawned' + outstanding' <= MaxSpawn
    /\ UNCHANGED soundVars
OutputLoaded ==
    /\ \E k \in 1..Len(pending) : outputLoaded(k)
    /\ UNCHANGED soundVars
OutputFailed ==
    /\ \E k \in 1..Len(pending) : outputFailed(k)
    /\ UNCHANGED soundVars

Next == KitchenTick \/ Press \/ Release \/ Interact \/ OutputLoaded \/ OutputFailed

Spec == Init /\ [][Next]_vars

\* the music on its own: the listeners are registered before init awaits
\* setupKitchen and preloadSoundAssets
NextSound == KeyR \/ Click \/ BgmLoaded \/ BgmLoadFailed \/ Preloaded

SpecSound == Init /\ [][NextSound]_vars

-----------------------------------------------------------------------------
(* The earlier interaction script (src/src/script.ts): its kitchen of table, *)
(* knife and plate, its tick, which passes over the dragged object only, its *)
(* attach, which leaves the object where it is, and its release.             *)

\* script.ts setupKitchen; the knife is registered as placeable as well where
\* two objects that are both draggable and placeable are wanted (the script's
\* records carry no type and no Selectable offset: the types given here are
\* never read)
setupKitchen_script(knifePlaceable) ==
    LET w0 == Placed(Loaded(EmptyWorld, "table"), "table", << 0, 5000, 0 >>, Zero3)
        w1 == makeDraggable(
                  Placed(Loaded(w0, "knife"), "knife", << 2000, 10500, -2000 >>, Zero3),
                  "knife", Zero3, "pisau")
        w2 == IF knifePlaceable
              THEN makePlacable(w1, "knife", [placeOffset |-> << 0, 250, 0 >>], Null)
              ELSE w1
        w3 == makePlacable(
                  makeDraggable(
                      Placed(Loaded(w2, "plateSingle"), "plateSingle",
                             << -2000, 10500, 5000 >>, Zero3),
                      "plateSingle", Zero3, "piring"),
                  "plateSingle", [placeOffset |-> << 0, 250, 0 >>], Null)
        w4 == makePlacable(w3, "table", [placeOffset |-> << 0, 5350, 0 >>], "meja")
        w5 == makeInteractable(w4, "plateSingle",
                               [interactInfo |-> "interact with Plate"], Null)
    IN addObjOnPlaceableObject_noReposition(
           addObjOnPlaceableObject_noReposition(w5, "table", "knife"),
           "table", "plateSingle")

\* script.ts checkRaycast
checkRaycast_script(rayHits, reach) ==
    /\ played' = << >>
    /\ before' = NoTrigger
    /\ skipped' = {}
    /\ UNCHANGED << recipes, pending, dragStart, represses, spawned, calls >>
    /\ IF ~isMovingSelectedObject
       THEN LET draggableIntersects == intersectObjects(draggableObjects, rayHits)
                interactabeIntersects == intersectObjects(interactableObjects, rayHits)
                d == topWithinFrom(draggableIntersects, maxSelectedObjDistance, 1)
                a == topWithinFrom(interactabeIntersects, maxInteractingObjDistance, 1)
            IN /\ selectedObject' =
                     IF d = 0 THEN Null
                     ELSE findTopDraggableAncestor(draggableIntersects[d].object)
               /\ interactingObject' =
                     IF a = 0 THEN Null
                     ELSE findTopInteractableAncestor(interactabeIntersects[a].object)
               /\ raised' = NoError
               /\ UNCHANGED << worldVars, currentPlaceableObject,
                               selectedObjectLastPosition,
                               selectedObjectLastQuaternion, isMovingSelectedObject >>
       ELSE IF selectedObject = Null
       THEN /\ interactingObject' = Null
            /\ raised' = "Unknown error"
            /\ UNCHANGED << worldVars, dragVars >>
       ELSE LET placeableIntersects == intersectObjects(placeableObjects, rayHits)
                i == placeScanFrom_noIgnore(placeableIntersects, selectedObject, {}, 1)
                candidate == IF i = 0 THEN Null
                             ELSE findTopPlaceableAncestor(placeableIntersects[i].object)
                selectedGoPosition ==
                    IF candidate = Null THEN reach
                    ELSE VAdd(<< placeableIntersects[i].point[1], position[candidate][2],
                                 placeableIntersects[i].point[3] >>,
                              userData[candidate].placeableData.placeOffset)
                w1 == [World EXCEPT !.position[selectedObject] = selectedGoPosition]
                w2 == recursiveUpdatePlaceableObject(w1, selectedObject)
            IN /\ interactingObject' = Null
               /\ currentPlaceableObject' = candidate
               /\ SetWorld(w2)
               /\ raised' = w2.error
               /\ UNCHANGED << selectedObject, selectedObjectLastPosition,
                               selectedObjectLastQuaternion, isMovingSelectedObject >>

\* script.ts onPointerUp (calls counts the drags ended)
onPointerUp_script(button) ==
    /\ played' = << >>
    /\ before' = NoTrigger
    /\ UNCHANGED << recipes, pending, selectedObject, interactingObject,
                    selectedObjectLastPosition, selectedObjectLastQuaternion,
                    represses, spawned >>
    /\ IF ~isMovingSelectedObject \/ button # 0 \/ selectedObject = Null
       THEN /\ raised' = NoError
            /\ UNCHANGED << worldVars, isMovingSelectedObject,
                            currentPlaceableObject, dragStart, skipped, calls >>
       ELSE /\ calls' = calls + 1
            /\ LET w == IF currentPlaceableObject = Null
                     THEN rollback(World, selectedObject, selectedObjectLastPosition,
                                   selectedObjectLastQuaternion)
                     ELSE addObjOnPlaceableObject_noReposition(
                              removeObjOnPlaceableObject(World, selectedObject),
                              currentPlaceableObject, selectedObject)
               IN /\ isMovingSelectedObject' = FALSE
                  /\ SetWorld(w)
                  /\ raised' = w.error
                  /\ currentPlaceableObject' =
                        IF w.error = NoError THEN Null ELSE currentPlaceableObject
                  /\ dragStart' = NoDrag
                  /\ skipped' = {}

InitScript ==
    /\ \E knifePlaceable \in BOOLEAN :
          LET w == setupKitchen_script(knifePlaceable)
          IN /\ userData = w.userData
             /\ position = w.position
             /\ rotation = w.rotation
             /\ scene = w.scene
             /\ draggableObjects = w.draggableObjects
             /\ placeableObjects = w.placeableObjects
             /\ interactableObjects = w.interactableObjects
    /\ recipes = << >>
    /\ selectedObject = Null
    /\ currentPlaceableObject = Null
    /\ selectedObjectLastPosition = Undefined
    /\ selectedObjectLastQuaternion = Undefined
    /\ isMovingSelectedObject = FALSE
    /\ interactingObject = Null
    /\ pending = << >>
    /\ played = << >>
    /\ raised = NoError
    /\ dragStart = NoDrag
    /\ represses = 0
    /\ spawned = 0
    /\ calls = 0
    /\ skipped = {}
    /\ before = NoTrigger
    /\ InitSound

\* the session is followed until a handler's recursion overflows the stack,
\* and while no object is above MaxHeight (a dragged object whose candidate is
\* an object attached to it climbs with every tick)
Tick_script ==
    /\ raised # StackOverflow
    /\ \E rayHits \in RayHitLists, reach \in CameraReach :
          checkRaycast_script(rayHits, reach)
    /\ \A o \in DOMAIN position' : position'[o][2] <= MaxHeight
    /\ UNCHANGED soundVars
Press_script == raised # StackOverflow /\ Press
Release_script ==
    /\ raised # StackOverflow
    /\ \E button \in Buttons : onPointerUp_script(button)
    /\ calls' <= MaxReleases
    /\ UNCHANGED soundVars

NextScript == Tick_script \/ Press_script \/ Release_script

SpecScript == InitScript /\ [][NextScript]_vars

-----------------------------------------------------------------------------
(* The recipe engine on its own: a cutting board holding any objects, any   *)
(* recipe table, and the interact trigger on the board with the output      *)
(* producers' completions.                                                   *)

ContentTypes == { "ayam-filet", "pisau", "kubis" }
IngredientTypes == { "ayam-filet", "pisau" }

SeqsUpTo(S, n) == UNION { [1..k -> S] : k \in 0..n }

ContentLists == SeqsUpTo(ContentTypes, MaxContents)

Ingredients ==
    [typeId : IngredientTypes, minimumCount : 1..MaxCount, useCount : 0..MaxCount]

Outputs ==
    { << >>,
      << [typeId |-> "ayam-dadu", offsetPlace |-> Zero3, placeOffset |-> Zero3] >> }

Recipes ==
    [ingredients : SeqsUpTo(Ingredients, MaxIngredients), output : Outputs,
     successSoundPath : { "./sounds/chop.mp3" }]

RECURSIVE entriesFrom(_, _)
entriesFrom(table, i) ==
    IF i > Len(table) THEN 0
    ELSE Len(table[i].ingredients) + entriesFrom(table, i + 1)

RecipeTables ==
    { table \in SeqsUpTo(Recipes, MaxRecipes) : entriesFrom(table, 1) <= MaxIngredients }

\* setup of one more object, as setupKitchen does it: load, place, add to the
\* scene, register as draggable with its type, attach to the host
RECURSIVE setupContents(_, _, _, _)
setupContents(w, host, types, i) ==
    IF i > Len(types) THEN w
    ELSE LET obj == NewId(w)
             w1 == makeDraggable(Placed(Loaded(w, obj), obj, w.position[host], Zero3),
                                 obj, Zero3, types[i])
         IN setupContents(addObjOnPlaceableObject(w1, host, obj), host, types, i + 1)

\* the cutting board alone, registered as setupKitchen registers it
setupBoard ==
    makeInteractable(
        makePlacable(
            makeDraggable(
                Placed(Loaded(EmptyWorld, "talenan"), "talenan",
                       << 5000, 8725, 2500 >>, Zero3),
                "talenan", << 0, 150, 0 >>, "talenan"),
            "talenan", [placeOffset |-> Zero3], Null),
        "talenan", [interactInfo |-> "interact with Talenan"], Null)

InitRecipe ==
    /\ \E types \in ContentLists :
          LET w == setupContents(setupBoard, "talenan", types, 1)
          IN /\ userData = w.userData
             /\ position = w.position
             /\ rotation = w.rotation
             /\ scene = w.scene
             /\ draggableObjects = w.draggableObjects
             /\ placeableObjects = w.placeableObjects
             /\ interactableObjects = w.interactableObjects
    /\ recipes \in RecipeTables
    /\ selectedObject = Null
    /\ currentPlaceableObject = Null
    /\ selectedObjectLastPosition = Undefined
    /\ selectedObjectLastQuaternion = Undefined
    /\ isMovingSelectedObject = FALSE
    \* a tick has found the board within reach
    /\ interactingObject = "talenan"
    /\ pending = << >>
    /\ played = << >>
    /\ raised = NoError
    /\ dragStart = NoDrag
    /\ represses = 0
    /\ spawned = 0
    /\ calls = 0
    /\ skipped = {}
    /\ before = NoTrigger
    /\ InitSound

NextRecipe == Interact \/ OutputLoaded \/ OutputFailed

SpecRecipe == InitRecipe /\ [][NextRecipe]_vars

-----------------------------------------------------------------------------
(* Overlapping calls of the recipe engine: the board holding any objects,    *)
(* recipes of up to two outputs, and triggers on the board while the outputs *)
(* of earlier triggers are still being constructed.                          *)

RaceRecipes ==
    [ingredients : SeqsUpTo([typeId : IngredientTypes, minimumCount : 1..MaxUse,
                             useCount : 0..MaxUse], MaxIngredients),
     output : Outputs \cup
              { << [typeId |-> "ayam-dadu", offsetPlace |-> Zero3, placeOffset |-> Zero3],
                   [typeId |-> "kubis-potong", offsetPlace |-> Zero3,
                    placeOffset |-> Zero3] >> },
     successSoundPath : { "./sounds/chop.mp3" }]

RaceTables ==
    { table \in SeqsUpTo(RaceRecipes, MaxRecipes) : entriesFrom(table, 1) <= MaxIngredients }

InitRace ==
    /\ \E types \in ContentLists :
          LET w == setupContents(setupBoard, "talenan", types, 1)
          IN /\ userData = w.userData
             /\ position = w.position
             /\ rotation = w.rotation
             /\ scene = w.scene
             /\ draggableObjects = w.draggableObjects
             /\ placeableObjects = w.placeableObjects
             /\ interactableObjects = w.interactableObjects
    /\ recipes \in RaceTables
    /\ selectedObject = Null
    /\ currentPlaceableObject = Null
    /\ selectedObjectLastPosition = Undefined
    /\ selectedObjectLastQuaternion = Undefined
    /\ isMovingSelectedObject = FALSE
    /\ interactingObject = "talenan"
    /\ pending = << >>
    /\ played = << >>
    /\ raised = NoError
    /\ dragStart = NoDrag
    /\ represses = 0
    /\ spawned = 0
    /\ calls = 0
    /\ skipped = {}
    /\ before = NoTrigger
    /\ InitSound

\* the interact trigger on the board, again while earlier triggers are suspended
Trigger ==
    /\ handleKeyDown
    /\ Len(pending') <= MaxRacing
    /\ spawned' + outstanding' <= MaxOutputs
    /\ UNCHANGED soundVars

NextRace == Trigger \/ OutputLoaded \/ OutputFailed

SpecRace == InitRace /\ [][NextRace]_vars

-----------------------------------------------------------------------------
(* The recipes of the source: the board holding any objects, the two recipes *)
(* of setupRecipe, and triggers on the board with their completions.          *)

InitSource ==
    /\ \E types \in ContentLists :
          LET w == setupContents(setupBoard, "talenan", types, 1)
          IN /\ userData = w.userData
             /\ position = w.position
             /\ rotation = w.rotation
             /\ scene = w.scene
             /\ draggableObjects = w.draggableObjects
             /\ placeableObjects = w.placeableObjects
             /\ interactableObjects = w.interactableObjects
    /\ recipes = setupRecipe
    /\ selectedObject = Null
    /\ currentPlaceableObject = Null
    /\ selectedObjectLastPosition = Undefined
    /\ selectedObjectLastQuaternion = Undefined
    /\ isMovingSelectedObject = FALSE
    /\ interactingObject = "talenan"
    /\ pending = << >>
    /\ played = << >>
    /\ raised = NoError
    /\ dragStart = NoDrag
    /\ represses = 0
    /\ spawned = 0
    /\ calls = 0
    /\ skipped = {}
    /\ before = NoTrigger
    /\ InitSound

SpecSource == InitSource /\ [][NextRace]_vars

-----------------------------------------------------------------------------
(* The drag on its own: the table, the plate and the board with any place   *)
(* offsets, and the tick, the press and the release.                         *)

\* place offsets: one vertical, as the source's are, and one with a horizontal part
DragOffsets == { << 0, 150, 0 >>, << 100, 150, 0 >> }

\* setupKitchen with other place offsets for the plate and on the board
setupDrag(plateOffset, boardPlace) ==
    LET w0 == Placed(Loaded(EmptyWorld, "table"), "table", << 0, 8500, 0 >>, Zero3)
        w1 == makePlacable(
                  makeDraggable(
                      Placed(Loaded(w0, "plateSingle"), "plateSingle",
                             << -2000, 0, 5000 >>, Zero3),
                      "plateSingle", plateOffset, "piring"),
                  "plateSingle", [placeOffset |-> Zero3], Null)
        w2 == makeInteractable(
                  makePlacable(
                      makeDraggable(
                          Placed(Loaded(w1, "talenan"), "talenan",
                                 << 5000, 0, 2500 >>, Zero3),
                          "talenan", << 0, 150, 0 >>, "talenan"),
                      "talenan", [placeOffset |-> boardPlace], Null),
                  "talenan", [interactInfo |-> "interact with Talenan"], Null)
        w3 == makePlacable(w2, "table", [placeOffset |-> << 0, 225, 0 >>], "meja")
    IN AttachAll(w3, "table", << "plateSingle", "talenan" >>, 1)

InitDrag ==
    /\ \E offset \in DragOffsets :
          LET w == setupDrag(offset, offset)
          IN /\ userData = w.userData
             /\ position = w.position
             /\ rotation = w.rotation
             /\ scene = w.scene
             /\ draggableObjects = w.draggableObjects
             /\ placeableObjects = w.placeableObjects
             /\ interactableObjects = w.interactableObjects
    /\ recipes = << >>
    /\ selectedObject = Null
    /\ currentPlaceableObject = Null
    /\ selectedObjectLastPosition = Undefined
    /\ selectedObjectLastQuaternion = Undefined
    /\ isMovingSelectedObject = FALSE
    /\ interactingObject = Null
    /\ pending = << >>
    /\ played = << >>
    /\ raised = NoError
    /\ dragStart = NoDrag
    /\ represses = 0
    /\ spawned = 0
    /\ calls = 0
    /\ skipped = {}
    /\ before = NoTrigger
    /\ InitSound

NextDrag == Tick \/ Press \/ Release

SpecDrag == InitDrag /\ [][NextDrag]_vars

-----------------------------------------------------------------------------
(* The attachment graph and the registry on their own: the functions called *)
(* one by one, in any order, with any arguments the callers can give them.  *)

\* place offsets (vertical, as the source's are) and positions given to position.set
GraphOffsets == { Zero3, << 0, 225, 0 >> }
GraphPositions == { << 0, 12000, 0 >> }
GraphTypeIds == { Null, "pisau" }
GraphOutputs ==
    [typeId : { "ayam-dadu" }, offsetPlace : GraphOffsets, placeOffset : GraphOffsets]

\* the table and the board registered as setupKitchen registers them, the board
\* on the table or not yet, and the knife loaded and in the scene but not
\* registered yet
setupGraph(boardOffset, attached) ==
    LET w0 == Placed(Loaded(EmptyWorld, "table"), "table", << 0, 8500, 0 >>, Zero3)
        w1 == makePlacable(
                  makeDraggable(
                      Placed(Loaded(w0, "talenan"), "talenan",
                             << 5000, 0, 2500 >>, Zero3),
                      "talenan", << 0, 150, 0 >>, "talenan"),
                  "talenan", [placeOffset |-> boardOffset], Null)
        w2 == makePlacable(w1, "table", [placeOffset |-> << 0, 225, 0 >>], "meja")
        w3 == IF attached THEN addObjOnPlaceableObject(w2, "table", "talenan") ELSE w2
    IN Placed(Loaded(w3, "knife"), "knife", << 2000, 0, -2000 >>, Zero3)

InitGraph ==
    /\ \E boardOffset \in GraphOffsets, attached \in BOOLEAN :
          LET w == setupGraph(boardOffset, attached)
          IN /\ userData = w.userData
             /\ position = w.position
             /\ rotation = w.rotation
             /\ scene = w.scene
             /\ draggableObjects = w.draggableObjects
             /\ placeableObjects = w.placeableObjects
             /\ interactableObjects = w.interactableObjects
    /\ recipes = << >>
    /\ selectedObject = Null
    /\ currentPlaceableObject = Null
    /\ selectedObjectLastPosition = Undefined
    /\ selectedObjectLastQuaternion = Undefined
    /\ isMovingSelectedObject = FALSE
    /\ interactingObject = Null
    /\ pending = << >>
    /\ played = << >>
    /\ raised = NoError
    /\ dragStart = NoDrag
    /\ represses = 0
    /\ spawned = 0
    /\ calls = 0
    /\ skipped = {}
    /\ before = NoTrigger
    /\ InitSound

registeredObjects == { o \in DOMAIN userData : asGameObject(userData[o]) # NullData }
selectables == { o \in registeredObjects : hasSelectable(World, o) }
placeables == { o \in registeredObjects : hasPlaceable(World, o) }

\* one call: its effect on the object store, the error it threw, and the record
\* of the call
Called(name, obj, arg, w) ==
    /\ calls < MaxCalls
    /\ calls' = calls + 1
    /\ SetWorld(w)
    /\ raised' = w.error
    /\ before' = [call |-> name, obj |-> obj, arg |-> arg, world |-> World,
                  pending |-> pending]
    /\ played' = << >>
    /\ UNCHANGED << dragVars, interactingObject, recipes, pending, dragStart,
                    represses, skipped >>
    /\ UNCHANGED soundVars

\* addObjOnPlaceableObject(g, o), for the hosts a caller can pass: not o itself
\* and none of o's descendants
Attach ==
    \E g \in placeables, o \in selectables :
        /\ g # o
        /\ g \notin getAllChildsSet(World, o)
        /\ Called("addObjOnPlaceableObject", o, g, addObjOnPlaceableObject(World, g, o))
        /\ UNCHANGED spawned

Detach ==
    \E o \in selectables :
        /\ Called("removeObjOnPlaceableObject", o, Null,
                  removeObjOnPlaceableObject(World, o))
        /\ UNCHANGED spawned

\* obj.position.set(...)
Move ==
    \E o \in registeredObjects, p \in GraphPositions :
        /\ Called("position.set", o, p, [World EXCEPT !.position[o] = p])
        /\ UNCHANGED spawned

Propagate ==
    \E h \in registeredObjects :
        /\ Called("recursiveUpdatePlaceableObject", h, Null,
                  recursiveUpdatePlaceableObject(World, h))
        /\ UNCHANGED spawned

RegisterDraggable ==
    \E o \in DOMAIN userData, offsetPlace \in GraphOffsets, newTypeId \in GraphTypeIds :
        /\ o \notin selectables
        /\ Called("makeDraggable", o, newTypeId,
                  makeDraggable(World, o, offsetPlace, newTypeId))
        /\ UNCHANGED spawned

RegisterPlaceable ==
    \E o \in DOMAIN userData, newTypeId \in GraphTypeIds :
        /\ o \notin placeables
        /\ Called("makePlacable", o, newTypeId,
                  makePlacable(World, o, [placeOffset |-> Zero3], newTypeId))
        /\ UNCHANGED spawned

RegisterInteractable ==
    \E o \in DOMAIN userData, newTypeId \in GraphTypeIds :
        /\ o \notin { r \in registeredObjects : userData[r].interactableData # NullData }
        /\ Called("makeInteractable", o, newTypeId,
                  makeInteractable(World, o, [interactInfo |-> "interact"], newTypeId))
        /\ UNCHANGED spawned

\* the output loop's body for one output of a matched recipe on surface g
Spawn ==
    \E g \in placeables, output \in GraphOutputs :
        /\ spawned < MaxSpawn
        /\ Called("attachOutput", g, output, attachOutput(World, g, output))
        /\ spawned' = spawned + 1

NextGraph ==
    \/ Attach
    \/ Detach
    \/ Move
    \/ Propagate
    \/ RegisterDraggable
    \/ RegisterPlaceable
    \/ RegisterInteractable
    \/ Spawn

SpecGraph == InitGraph /\ [][NextGraph]_vars

-----------------------------------------------------------------------------
(* Properties of the attachment graph *)

\* the hosts: the objects with a placeable record
hosts == { g \in DOMAIN userData : hasPlaceable(World, g) }

\* the indices at which host g lists object o
listing(g, o) ==
    { i \in 1..Len(placedObjectOf(World, g)) : placedObjectOf(World, g)[i] = o }

placedOnOf(o) == userData[o].selectableData.placedOn

\* C1: in every reachable state, every object o with a selectable record is
\* listed exactly once by the host its placedOn names and by no other host, and
\* by no host at all when its placedOn is null.
PlacedOnConsistent ==
    \A o \in DOMAIN userData :
        hasSelectable(World, o) =>
            IF placedOnOf(o) # Null
            THEN /\ placedOnOf(o) \in hosts
                 /\ Cardinality(listing(placedOnOf(o), o)) = 1
                 /\ \A g \in hosts \ { placedOnOf(o) } : listing(g, o) = {}
            ELSE \A g \in hosts : listing(g, o) = {}

\* C1 is exercised: a recipe output has been attached to its surface, dragged
\* off it onto the plate, and the plate itself has been moved onto the board
PlacedOnConsistentSeen ==
    /\ placedOnOf("plateSingle") = "talenan"
    /\ \E o \in DOMAIN userData :
           /\ userData[o].typeId = "ayam-dadu"
           /\ placedOnOf(o) = "plateSingle"

\* C2: in every reachable state the attachment relation is acyclic: no object
\* is a member of its own descendant set.
Acyclic == \A X \in DOMAIN userData : X \notin getAllChildsSet(World, X)

\* C2 is exercised: commits have built a chain of depth two with the board on
\* the plate, the reverse of a chain the plate could have formed on the board
AcyclicSeen ==
    /\ ~isMovingSelectedObject
    /\ placedOnOf("talenan") = "plateSingle"
    /\ placedOnOf("plateSingle") = "table"

\* C3: while a drag is in progress the placement candidate a tick has chosen is
\* neither the dragged object nor a member of its descendant set.
CandidateEligible ==
    (isMovingSelectedObject /\ currentPlaceableObject # Null) =>
        /\ currentPlaceableObject # selectedObject
        /\ currentPlaceableObject \notin getAllChildsSet(World, selectedObject)

\* C3 is exercised: a dragging tick was given an in-range hit on a descendant of
\* the dragged object as its nearest hit, passed over it, and chose a later hit
CandidateEligibleSeen ==
    /\ isMovingSelectedObject
    /\ "descendant" \in skipped
    /\ currentPlaceableObject # Null

-----------------------------------------------------------------------------
(* Properties of the drag / place state machine *)

\* a step that ends a drag: a button-0 release taken while dragging
EndsDrag == isMovingSelectedObject /\ ~isMovingSelectedObject'

\* C4: a release that ends a drag with no placement candidate leaves the
\* dragged object at the position and rotation it had when the drag started
\* (the press that took Idle to Dragging), and each of its descendants at the
\* position it had then.
RollbackRestores ==
    [][(EndsDrag /\ currentPlaceableObject = Null) =>
          /\ position'[selectedObject] = dragStart.position[selectedObject]
          /\ rotation'[selectedObject] = dragStart.rotation[selectedObject]
          /\ \A d \in getAllChildsSet(World, selectedObject) \cap
                        DOMAIN dragStart.position :
                 position'[d] = dragStart.position[d]]_vars

\* host g's paired lists with the entry of object o taken out, if g lists it
placedObjectWithout(g, o) ==
    LET i == IndexFrom(placedObjectOf(World, g), o, 1)
    IN IF i = 0 THEN placedObjectOf(World, g) ELSE RemoveAt(placedObjectOf(World, g), i)

lastPlaceObjectPosWithout(g, o) ==
    LET i == IndexFrom(placedObjectOf(World, g), o, 1)
        list == userData[g].placeableData.lastPlaceObjectPos
    IN IF i = 0 THEN list ELSE RemoveAt(list, i)

\* C5: a release that ends a drag of X with candidate C takes X's entries out
\* of its prior host's paired lists, appends X at the end of C's lists and sets
\* X.placedOn = C, and changes no other placedOn and no other list entry; a
\* release with no candidate changes no placedOn and no list.
CommitReattaches ==
    [][/\ (EndsDrag /\ currentPlaceableObject # Null) =>
            /\ DOMAIN userData' = DOMAIN userData
            /\ userData'[selectedObject].selectableData.placedOn =
                   currentPlaceableObject
            /\ \A o \in DOMAIN userData \ { selectedObject } :
                   hasSelectable(World, o) =>
                       userData'[o].selectableData.placedOn = placedOnOf(o)
            /\ \A g \in hosts :
                   LET data == userData'[g].placeableData
                       n == Len(data.placedObject)
                   IN IF g = currentPlaceableObject
                      THEN /\ data.placedObject =
                                 Append(placedObjectWithout(g, selectedObject),
                                        selectedObject)
                           /\ Len(data.lastPlaceObjectPos) = n
                           /\ SubSeq(data.lastPlaceObjectPos, 1, n - 1) =
                                 lastPlaceObjectPosWithout(g, selectedObject)
                      ELSE /\ data.placedObject =
                                 placedObjectWithout(g, selectedObject)
                           /\ data.lastPlaceObjectPos =
                                 lastPlaceObjectPosWithout(g, selectedObject)
       /\ (Release /\ currentPlaceableObject = Null) =>
            /\ DOMAIN userData' = DOMAIN userData
            /\ \A o \in DOMAIN userData :
                   /\ hasSelectable(World, o) =>
                          userData'[o].selectableData.placedOn = placedOnOf(o)
                   /\ hasPlaceable(World, o) =>
                          /\ userData'[o].placeableData.placedObject =
                                 placedObjectOf(World, o)
                          /\ userData'[o].placeableData.lastPlaceObjectPos =
                                 userData[o].placeableData.lastPlaceObjectPos]_vars

\* C5 is exercised: the plate has been taken off the table's list, where it was
\* the first entry, and put on the board, which the table still lists
CommitReattachesSeen ==
    /\ ~isMovingSelectedObject
    /\ placedOnOf("plateSingle") = "talenan"
    /\ placedObjectOf(World, "table") = << "talenan" >>
    /\ placedObjectOf(World, "talenan") = << "plateSingle" >>

-----------------------------------------------------------------------------
(* Properties of the recipe engine in the running system *)

\* the objects a recipe has consumed: created, and no longer in the scene
\* (setup and the output producers add every object they create to the scene,
\* and only the consumption loop removes one from it)
consumedObjects == DOMAIN userData \ scene

\* C9: an object a recipe has consumed is in none of the three membership
\* lists (and not in the scene).
ConsumedUnregistered ==
    \A o \in consumedObjects :
        /\ o \notin Range(draggableObjects)
        /\ o \notin Range(placeableObjects)
        /\ o \notin Range(interactableObjects)

\* what the last trigger found on its surface
Triggered == before # NoTrigger
inPlaceBefore == objectsInPlace(before.world, before.obj)
listBefore == placedObjectOf(before.world, before.obj)
listNow == placedObjectOf(World, before.obj)
typeOf(o) == userData[o].typeId

\* the recipe the code's matching test selects first, in registration order
isFirstMatch(i) ==
    /\ recipeMatches(recipes[i], inPlaceBefore)
    /\ \A k \in 1..(i - 1) : ~recipeMatches(recipes[k], inPlaceBefore)

NoMatch == \A i \in 1..Len(recipes) : ~recipeMatches(recipes[i], inPlaceBefore)

\* the surface's objects of type t before the trigger, in list order
RECURSIVE instancesFrom(_, _)
instancesFrom(t, a) ==
    IF a > Len(listBefore) THEN << >>
    ELSE (IF typeOf(listBefore[a]) = t THEN << listBefore[a] >> ELSE << >>)
         \o instancesFrom(t, a + 1)

instances(t) == instancesFrom(t, 1)

\* the objects the trigger took off the surface
removedObjects == Range(listBefore) \ Range(listNow)

Min(a, b) == IF a <= b THEN a ELSE b

\* the sum of the useCounts of the recipe's entries for type t
RECURSIVE useTotalFrom(_, _, _)
useTotalFrom(recipe, t, j) ==
    IF j > Len(recipe.ingredients) THEN 0
    ELSE (IF recipe.ingredients[j].typeId = t THEN recipe.ingredients[j].useCount ELSE 0)
         + useTotalFrom(recipe, t, j + 1)

useTotal(recipe, t) == useTotalFrom(recipe, t, 1)

\* the distinct typeIds a recipe requires
requiredTypes(recipe) ==
    { recipe.ingredients[j].typeId : j \in 1..Len(recipe.ingredients) }

\* C6: a recipe matches exactly when the number of distinct typeIds it requires
\* equals the number of distinct typeIds attached to the surface and every
\* required typeId is attached with count at least its minimumCount.
MatchByDistinctTypes ==
    LET inPlace == objectsInPlace(World, interactingObject)
    IN \A i \in 1..Len(recipes) :
          recipeMatches(recipes[i], inPlace) <=>
              /\ Cardinality(requiredTypes(recipes[i])) = Cardinality(DOMAIN inPlace)
              /\ \A j \in 1..Len(recipes[i].ingredients) :
                     /\ recipes[i].ingredients[j].typeId \in DOMAIN inPlace
                     /\ inPlace[recipes[i].ingredients[j].typeId] >=
                            recipes[i].ingredients[j].minimumCount

\* recipe i, and no other, has been applied by the last trigger: the objects
\* taken off the surface are those recipe i uses up, and the call went on to
\* recipe i's first producer, or to recipe i's cue if it has no output
AppliedOnly(i) ==
    /\ \A t \in ContentTypes :
          Cardinality({ o \in removedObjects : typeOf(o) = t }) =
              Min(useTotal(recipes[i], t), Len(instances(t)))
    /\ IF Len(recipes[i].output) = 0
       THEN /\ pending = before.pending
            /\ played = successCue(recipes[i])
       ELSE /\ pending = Append(before.pending,
                                [obj |-> before.obj, recipe |-> i, j |-> 1])
            /\ played = << >>

\* C7: after a trigger, the recipe applied is the earliest registered one that
\* matches the surface's contents, and no later one.
FirstMatchApplied ==
    Triggered => \A i \in 1..Len(recipes) : isFirstMatch(i) => AppliedOnly(i)

\* C7 is exercised: both recipes of the table matched, the first uses up an
\* ingredient and the second has an output, and the trigger has run
FirstMatchAppliedSeen ==
    /\ Triggered
    /\ Len(recipes) = 2
    /\ recipeMatches(recipes[1], inPlaceBefore)
    /\ recipeMatches(recipes[2], inPlaceBefore)
    /\ removedObjects # {}
    /\ recipes[1].output = << >>
    /\ recipes[2].output # << >>
    /\ recipes[2].ingredients[1].useCount = 0

\* the objects of type t the last trigger took off the surface
removedOf(t) == { o \in removedObjects : typeOf(o) = t }

NoMatchSilent ==
    (Triggered /\ NoMatch) =>
        /\ raised = NoError
        /\ played = << [path |-> failedSoundPath, volume |-> 6] >>
        /\ \A r \in 1..Len(recipes) :
               \A c \in 1..Len(played) : played[c].path # recipes[r].successSoundPath
        /\ World = before.world
        /\ pending = before.pending

\* C10 is exercised: a trigger has run on a non-empty surface that no recipe of
\* a non-empty table matches
NoMatchSilentSeen ==
    /\ Triggered
    /\ NoMatch
    /\ Len(recipes) > 0
    /\ Len(listBefore) > 0

-----------------------------------------------------------------------------
(* Properties of the attachment functions, called one by one *)

CalledAs(name) == before # NoTrigger /\ before.call = name
Last(s) == s[Len(s)]
placeableDataOf(g) == userData[g].placeableData
wasPlacedOn(o) == before.world.userData[o].selectableData.placedOn

\* C11: a call of addObjOnPlaceableObject for an object whose placedOn is set
\* raises the error and leaves the positions, placedOn and the paired lists of
\* every host (and all the rest of the object store) as they were.
AttachAgainRejected ==
    (CalledAs("addObjOnPlaceableObject") /\ wasPlacedOn(before.obj) # Null)
        => (raised = AlreadyPlaced /\ World = before.world)

\* an attached object was offered to a host other than its own
AttachAgainRejectedSeen ==
    /\ CalledAs("addObjOnPlaceableObject")
    /\ wasPlacedOn(before.obj) \notin { Null, before.arg }
    /\ raised = AlreadyPlaced
    /\ placedOnOf(before.obj) = wasPlacedOn(before.obj)

\* C12: after addObjOnPlaceableObject(g, o) on an unattached o, o's height is g's
\* height plus the height of o's Selectable placeOffset plus the height of g's
\* Placeable placeOffset, whatever o's height was, and the offset recorded for o
\* (the last of g's list) is o's new position minus g's position.
AttachHeight ==
    (CalledAs("addObjOnPlaceableObject") /\ wasPlacedOn(before.obj) = Null)
        => LET o == before.obj
               g == before.arg
           IN /\ raised = NoError
              /\ position[o][2] = before.world.position[g][2]
                                  + userData[o].selectableData.placeOffset[2]
                                  + placeableDataOf(g).placeOffset[2]
              /\ Last(placeableDataOf(g).placedObject) = o
              /\ Last(placeableDataOf(g).lastPlaceObjectPos)
                     = VSub(position[o], position[g])

\* an object that rested on one host (detached since) was attached to a second
\* host at another height
AttachHeightSeen ==
    /\ CalledAs("addObjOnPlaceableObject")
    /\ wasPlacedOn(before.obj) = Null
    /\ \E h \in placeables \ { before.arg, before.obj } :
          /\ position[h][2] # position[before.arg][2]
          /\ before.world.position[before.obj][2]
                 = position[h][2] + userData[before.obj].selectableData.placeOffset[2]
                   + placeableDataOf(h).placeOffset[2]
    /\ position[before.obj][2] # before.world.position[before.obj][2]
    /\ placedOnOf(before.obj) = before.arg

\* C13: after recursiveUpdatePlaceableObject(h) every object listed by h or by a
\* descendant of h, at whatever depth, is at its host's position plus the offset
\* recorded for it, and h and every object outside h's subtree are where they
\* were; nothing but positions changes.
PropagateReaches ==
    CalledAs("recursiveUpdatePlaceableObject")
        => LET h == before.obj
               subtree == getAllChildsSet(World, h)
           IN /\ raised = NoError
              /\ \A g \in ({ h } \cup subtree) \cap placeables :
                    \A i \in 1..Len(placeableDataOf(g).placedObject) :
                        position[placeableDataOf(g).placedObject[i]]
                            = VAdd(position[g], placeableDataOf(g).lastPlaceObjectPos[i])
              /\ \A o \in DOMAIN position \ subtree :
                    position[o] = before.world.position[o]
              /\ [World EXCEPT !.position = before.world.position] = before.world

\* the update moved an object two levels below h
PropagateReachesSeen ==
    /\ CalledAs("recursiveUpdatePlaceableObject")
    /\ \E d \in getAllChildsSet(World, before.obj) \cap selectables :
          /\ placedOnOf(d) \notin { Null, before.obj }
          /\ placedOnOf(d) \in getAllChildsSet(World, before.obj)
          /\ position[d] # before.world.position[d]
          /\ position[placedOnOf(d)] # before.world.position[placedOnOf(d)]

\* s without its entry i
without(s, i) == [k \in 1..(Len(s) - 1) |-> IF k < i THEN s[k] ELSE s[k + 1]]

\* C14: removeObjOnPlaceableObject(o) changes nothing when o's placedOn is null;
\* otherwise it takes o's entry and the offset at the same index out of the
\* host's lists, keeps the other entries in their order, sets placedOn to null,
\* and moves nothing and changes nothing else.
DetachExact ==
    CalledAs("removeObjOnPlaceableObject")
        => LET o == before.obj
               g == wasPlacedOn(o)
               old == before.world.userData[g].placeableData
               i == CHOOSE k \in 1..Len(old.placedObject) : old.placedObject[k] = o
           IN /\ raised = NoError
              /\ IF g = Null THEN World = before.world
                 ELSE /\ placeableDataOf(g).placedObject = without(old.placedObject, i)
                      /\ placeableDataOf(g).lastPlaceObjectPos
                             = without(old.lastPlaceObjectPos, i)
                      /\ placedOnOf(o) = Null
                      /\ position = before.world.position
                      /\ [World EXCEPT
                             !.userData[g].placeableData.placedObject = old.placedObject,
                             !.userData[g].placeableData.lastPlaceObjectPos =
                                 old.lastPlaceObjectPos,
                             !.userData[o].selectableData.placedOn = g] = before.world

\* an object was detached from a host that listed another object after or before it
DetachExactSeen ==
    /\ CalledAs("removeObjOnPlaceableObject")
    /\ wasPlacedOn(before.obj) # Null
    /\ Len(before.world.userData[wasPlacedOn(before.obj)].placeableData.placedObject) = 2
    /\ Len(placeableDataOf(wasPlacedOn(before.obj)).placedObject) = 1
    /\ placedOnOf(before.obj) = Null

Registrations == { "makeDraggable", "makePlacable", "makeInteractable" }
wasRegistered(o) ==
    o \in DOMAIN before.world.userData
        /\ asGameObject(before.world.userData[o]) # NullData

\* C15: an object's typeId is the one of its first registration: no call, and in
\* particular no later makeDraggable, makePlacable or makeInteractable on it with
\* another typeId argument, changes the typeId of an object that has metadata.
TypeIdKept ==
    before # NoTrigger
        => \A o \in DOMAIN userData :
               wasRegistered(o) => userData[o].typeId = before.world.userData[o].typeId

\* a registered object was given a further capability by a call that named a
\* typeId other than its own
TypeIdKeptSeen ==
    /\ before # NoTrigger
    /\ before.call \in Registrations
    /\ wasRegistered(before.obj)
    /\ before.arg \notin { Null, before.world.userData[before.obj].typeId }
    /\ raised = NoError
    /\ userData[before.obj] # before.world.userData[before.obj]

\* C16: a registration of an object without metadata that names no typeId fails
\* with the missing-type error and leaves the three membership lists and the
\* metadata as they were.
MissingTypeChangesNothing ==
    (before # NoTrigger /\ before.call \in Registrations
       /\ ~wasRegistered(before.obj) /\ before.arg = Null)
        => /\ raised = MissingType
           /\ draggableObjects = before.world.draggableObjects
           /\ placeableObjects = before.world.placeableObjects
           /\ interactableObjects = before.world.interactableObjects
           /\ userData = before.world.userData

-----------------------------------------------------------------------------
(* Properties of the paired lists and of the drag, in the running program *)

\* the entries of host g's lists, each object with the offset at its index
pairsOf(data, g) ==
    IF g \notin DOMAIN data \/ asGameObject(data[g]) = NullData THEN << >>
    ELSE IF data[g].placeableData = NullData THEN << >>
    ELSE [i \in 1..Len(data[g].placeableData.placedObject) |->
             << data[g].placeableData.placedObject[i],
                data[g].placeableData.lastPlaceObjectPos[i] >>]

\* a is b with some entries taken out
RECURSIVE isSubSeq(_, _)
isSubSeq(a, b) ==
    IF a = << >> THEN TRUE
    ELSE IF b = << >> THEN FALSE
    ELSE IF Head(a) = Head(b) THEN isSubSeq(Tail(a), Tail(b))
    ELSE isSubSeq(a, Tail(b))

PairedLengths ==
    \A g \in hosts :
        Len(placeableDataOf(g).placedObject) = Len(placeableDataOf(g).lastPlaceObjectPos)

\* after a step, host g's entries are entries it had, in their order and each
\* with the offset it had, followed by the entries attached in the step, each
\* with the offset of the object from g as the attach left them
PairsRecorded(g) ==
    LET old == pairsOf(userData, g)
        new == pairsOf(userData', g)
    IN \E k \in 0..Len(new) :
          /\ isSubSeq(SubSeq(new, 1, k), old)
          /\ \A j \in (k + 1)..Len(new) :
                new[j][2] = VSub(position'[new[j][1]], position'[g])

\* C17: in every reachable state the placedObject and lastPlaceObjectPos lists
\* of each Placeable have the same length, and entry i of the offset list is
\* the offset recorded when entry i of the object list was attached: a step
\* keeps or removes pairs as pairs and adds each new object with its offset.
OffsetsPaired ==
    /\ []PairedLengths
    /\ [][userData' # userData => \A g \in DOMAIN userData' : PairsRecorded(g)]_vars

\* a drag put an object on a host other than the table, which lists it with the
\* offset between them
OffsetsPairedSeen ==
    \E g \in hosts \ { "table" } :
        /\ Len(placeableDataOf(g).placedObject) >= 1
        /\ Len(placeableDataOf(g).lastPlaceObjectPos) = Len(placeableDataOf(g).placedObject)
        /\ placeableDataOf(g).lastPlaceObjectPos[1]
               = VSub(position[placeableDataOf(g).placedObject[1]], position[g])
        /\ placeableDataOf(g).lastPlaceObjectPos[1] # Zero3

\* C18: the placement candidate is non-null only while a drag is in progress;
\* in particular every release that ends a drag, by commit or by rollback,
\* leaves it null.
CandidateOnlyWhileDragging ==
    currentPlaceableObject # Null => isMovingSelectedObject

\* a drag with a candidate was ended by a release that committed: the object
\* dragged is on a host other than the table, no drag is on and no candidate left
CandidateOnlyWhileDraggingSeen ==
    /\ ~isMovingSelectedObject
    /\ dragStart = NoDrag
    /\ selectedObject # Null
    /\ placedOnOf(selectedObject) \notin { Null, "table" }
    /\ raised = NoError
    /\ currentPlaceableObject = Null

\* C19: a press with button 0, the pointer locked and an object selected sets
\* isMovingSelectedObject and takes the snapshot of the object's position and
\* rotation, and changes nothing else; a press that fails one of the three
\* conditions changes nothing.
PressStartsDrag ==
    [][\A button \in Buttons, isLocked \in BOOLEAN :
          onPointerDown(button, isLocked)
              => IF button = 0 /\ isLocked /\ selectedObject # Null
                 THEN /\ isMovingSelectedObject'
                      /\ selectedObjectLastPosition' = position[selectedObject]
                      /\ selectedObjectLastQuaternion' = rotation[selectedObject]
                      /\ UNCHANGED << worldVars, selectedObject, currentPlaceableObject,
                                      interactingObject, recipes, pending >>
                 ELSE UNCHANGED << worldVars, dragVars, interactingObject, recipes,
                                   pending >>]_vars

\* a press has just started a drag: the snapshot is the selected object's pose
\* and nothing has moved since
PressStartsDragSeen ==
    /\ isMovingSelectedObject
    /\ dragStart # NoDrag
    /\ position = dragStart.position
    /\ selectedObjectLastPosition = position[selectedObject]
    /\ selectedObjectLastQuaternion = rotation[selectedObject]

-----------------------------------------------------------------------------
(* Properties of the recipe outputs *)

\* the object the last call created
spawnedObj == CHOOSE o \in DOMAIN userData : o \notin DOMAIN before.world.userData

\* C20: an output of a matched recipe ends up attached to the surface at
\* surface.position + the output's placeOffset + the surface's Placeable
\* placeOffset, whatever the two offsets and the output object's own Selectable
\* offset are.
OutputAtSpawnPos ==
    CalledAs("attachOutput")
        => /\ raised = NoError
           /\ placedOnOf(spawnedObj) = before.obj
           /\ position[spawnedObj]
                  = VAdd(VAdd(position[before.obj], before.arg.placeOffset),
                         placeableDataOf(before.obj).placeOffset)

typeIdsOn(g) ==
    { userData[placeableDataOf(g).placedObject[i]].typeId :
          i \in 1..Len(placeableDataOf(g).placedObject) }

\* C21: when the construction of an output fails, the recipe application ends
\* there: the objects, the scene and the lists are left as they are (what was
\* consumed stays removed, what earlier producers attached stays attached), the
\* call is no longer suspended, so its later producers never run, and no sound
\* is played.
FailureAborts ==
    [][\A k \in 1..Len(pending) :
          outputFailed(k)
              => /\ World' = World
                 /\ spawned' = spawned
                 /\ played' = << >>
                 /\ Len(pending') = Len(pending) - 1
                 /\ \A i \in 1..Len(pending') :
                        pending'[i] = pending[IF i < k THEN i ELSE i + 1]]_vars

\* the second producer of a recipe failed after the recipe had consumed an
\* ingredient and its first producer's output had been attached
FailureAbortsSeen ==
    /\ raised = LoadFailed
    /\ Len(recipes) = 1
    /\ Len(recipes[1].output) = 2
    /\ pending = << >>
    /\ played = << >>
    /\ spawned = 1
    /\ "ayam-dadu" \in typeIdsOn("talenan")
    /\ "kubis-potong" \notin typeIdsOn("talenan")
    /\ \E o \in DOMAIN userData : o \notin scene

-----------------------------------------------------------------------------
(* Properties of the tick, the press and the release *)

\* the hits of a ray that a dragging tick may choose: on a placeable object or
\* below one, within the placement distance, and resolving neither to the
\* dragged object nor to one of its descendants
eligibleHits(placeableIntersects, descendants) ==
    { i \in 1..Len(placeableIntersects) :
        /\ placeableIntersects[i].distance <= maxPlaceableObjDistance
        /\ findTopPlaceableAncestor(placeableIntersects[i].object) # selectedObject
        /\ findTopPlaceableAncestor(placeableIntersects[i].object) \notin descendants }

firstEligible(rayHits, descendants) ==
    LET placeableIntersects == intersectObjects(placeableObjects, rayHits)
        E == eligibleHits(placeableIntersects, descendants)
    IN IF E = {} THEN Null
       ELSE findTopPlaceableAncestor(
                placeableIntersects[CHOOSE i \in E : \A j \in E : i <= j].object)

\* C22: on a dragging tick the placement candidate is the object of the first
\* hit, nearest first, that is within the placement distance and resolves
\* neither to the dragged object nor to a descendant of it, however many nearer
\* hits are passed over, and it is null only if no hit is eligible.
FirstEligibleChosen ==
    [][(isMovingSelectedObject /\ isMovingSelectedObject' /\ selectedObject # Null)
          => LET descendants == getAllChildsSet(World, selectedObject)
             IN \A rayHits \in RayHitLists, reach \in CameraReach :
                    \/ currentPlaceableObject' = firstEligible(rayHits, descendants)
                    \/ ~checkRaycast(rayHits, reach)]_vars

\* a dragging tick passed over a nearer hit on the dragged object itself and
\* chose a farther hit
FirstEligibleChosenSeen ==
    /\ isMovingSelectedObject
    /\ "self" \in skipped
    /\ currentPlaceableObject # Null
    /\ raised = NoError

\* C23: a press received while a drag is in progress leaves the rollback
\* snapshot as it is: selectedObjectLastPosition and
\* selectedObjectLastQuaternion keep the values taken when the drag started
\* until the drag ends.
SnapshotKept ==
    [][(isMovingSelectedObject /\ isMovingSelectedObject')
          => UNCHANGED << selectedObjectLastPosition, selectedObjectLastQuaternion >>]_vars

\* C24: whenever no drag is in progress, every attached object is at its
\* host's position plus the offset recorded for it in the host's lists.
AttachedInPlace ==
    ~isMovingSelectedObject
        => \A g \in hosts :
               \A i \in 1..Len(placeableDataOf(g).placedObject) :
                   position[placeableDataOf(g).placedObject[i]]
                       = VAdd(position[g], placeableDataOf(g).lastPlaceObjectPos[i])

\* a step that neither starts nor ends a drag, neither triggers a recipe nor
\* resumes one: a tick, or a press, a release or a key that changes nothing
\* but, for a press, the snapshot
Idles ==
    /\ isMovingSelectedObject' = isMovingSelectedObject
    /\ before' = NoTrigger
    /\ pending' = pending
    /\ spawned' = spawned

\* C25: a tick, dragging or not, changes no placedOn and no placedObject or
\* lastPlaceObjectPos list (nor anything else of the objects' metadata, the
\* scene or the membership lists); while dragging it leaves the dragged object
\* selected and every position but those of the dragged object and of its
\* descendants, and every rotation, as they are, so the dragged object stays
\* attached to its prior host until the release.
TickFrame ==
    [][Idles
          => /\ UNCHANGED << userData, scene, rotation, draggableObjects,
                             placeableObjects, interactableObjects, recipes >>
             /\ DOMAIN position' = DOMAIN position
             /\ IF isMovingSelectedObject /\ selectedObject # Null
                THEN /\ selectedObject' = selectedObject
                     /\ \A o \in DOMAIN position \
                               ({ selectedObject }
                                   \cup getAllChildsSet(World, selectedObject)) :
                            position'[o] = position[o]
                ELSE position' = position]_vars

\* a dragging tick has put the dragged object over another host than its own,
\* away from the place its own host records for it, and it is still attached
\* to its own host
TickFrameSeen ==
    /\ isMovingSelectedObject
    /\ selectedObject # Null
    /\ raised = NoError
    /\ placedOnOf(selectedObject) # Null
    /\ currentPlaceableObject \notin { Null, placedOnOf(selectedObject) }
    /\ selectedObject \in Range(placeableDataOf(placedOnOf(selectedObject)).placedObject)
    /\ position[selectedObject][2] # dragStart.position[selectedObject][2]

UnknownError == "Unknown error"

\* C26: in every reachable state a drag in progress has a selected object, the
\* selection does not change while the drag goes on, and the error a tick
\* throws for a drag without a selection is never raised.
DragHasSelection ==
    /\ [](isMovingSelectedObject => selectedObject # Null)
    /\ [](raised # UnknownError)
    /\ [][(isMovingSelectedObject /\ isMovingSelectedObject')
             => selectedObject' = selectedObject]_vars

\* ticks have moved the dragged object since the press that started the drag
DragHasSelectionSeen ==
    /\ isMovingSelectedObject
    /\ selectedObject # Null
    /\ represses = 0
    /\ raised = NoError
    /\ position[selectedObject] # dragStart.position[selectedObject]
    /\ selectedObjectLastPosition = dragStart.position[selectedObject]

\* C27: while a drag is in progress a release of button 0 ends it in that
\* step, and a release of another button changes nothing, so the drag and its
\* candidate persist.
ReleaseEndsDrag ==
    [][(isMovingSelectedObject /\ selectedObject # Null)
          => \A button \in Buttons :
                 onPointerUp(button)
                     => IF button = 0 THEN ~isMovingSelectedObject'
                        ELSE UNCHANGED << worldVars, dragVars, interactingObject,
                                          recipes, pending >>]_vars

\* a release of button 0 has ended a drag that had no candidate
ReleaseEndsDragSeen ==
    /\ ~isMovingSelectedObject
    /\ dragStart = NoDrag
    /\ selectedObject # Null
    /\ selectedObjectLastPosition # Undefined
    /\ position[selectedObject] = selectedObjectLastPosition
    /\ raised = NoError

\* C28: a release that commits a placement leaves the dragged object at the
\* preview position the last dragging tick gave it.
CommitKeepsPreview ==
    [][(EndsDrag /\ currentPlaceableObject # Null)
          => position'[selectedObject] = position[selectedObject]]_vars

-----------------------------------------------------------------------------
(* Properties of triggers and completions that overlap *)

consumesNothing(recipe) ==
    \A j \in 1..Len(recipe.ingredients) : recipe.ingredients[j].useCount = 0

\* C29: a trigger on a surface on which an earlier trigger's outputs are still
\* being constructed is evaluated as any other, against the surface's contents
\* at that moment: the first recipe matching them is applied at once, the
\* earlier calls stay suspended as they were, and if the earlier call's recipe
\* consumes nothing and nothing has been attached since, that recipe matches
\* again and a second call for it is suspended.
RacingTriggerApplied ==
    (Triggered /\ before.pending # << >>)
        => /\ raised = NoError
           /\ \A i \in 1..Len(recipes) : isFirstMatch(i) => AppliedOnly(i)
           /\ NoMatch => (pending = before.pending /\ played = failureCue)
           /\ SubSeq(pending, 1, Len(before.pending)) = before.pending
           /\ \A k \in 1..Len(before.pending) :
                  (/\ spawned = 0
                   /\ before.pending[k].obj = before.obj
                   /\ consumesNothing(recipes[before.pending[k].recipe]))
                      => /\ isFirstMatch(before.pending[k].recipe)
                         /\ pending = Append(before.pending,
                                             [obj |-> before.obj,
                                              recipe |-> before.pending[k].recipe,
                                              j |-> 1])

\* the one recipe of the table, which consumes nothing and has one output, was
\* triggered twice before its first output was there, and the board ends with
\* the outputs of both calls
RacingTriggerAppliedSeen ==
    /\ pending = << >>
    /\ spawned = 2
    /\ raised = NoError
    /\ Len(recipes) = 1
    /\ Len(recipes[1].output) = 1
    /\ consumesNothing(recipes[1])
    /\ Len(recipes[1].ingredients) = Cardinality(requiredTypes(recipes[1]))
    /\ Cardinality({ i \in 1..Len(placeableDataOf("talenan").placedObject) :
                        typeOf(placeableDataOf("talenan").placedObject[i]) = "ayam-dadu" })
          = 2

\* C30: when the construction of an output of a suspended call completes, the
\* new object is attached to the call's surface, whatever was attached to the
\* surface, removed from it or done to the surface itself since the trigger:
\* it becomes the last entry of the surface's lists, the entries that were
\* there stay, the surface is not moved, and the object's position and its
\* recorded offset are those addObjOnPlaceableObject computes from the
\* position the surface has at the completion.
OutputAtCompletion ==
    [][\A k \in 1..Len(pending) :
          outputLoaded(k)
              => LET S == pending[k].obj
                     output == recipes[pending[k].recipe].output[pending[k].j]
                     new == NewId(World)
                     surface == placeableDataOf(S).placeOffset
                     at == << position[S][1] + output.placeOffset[1] + surface[1]
                                 + output.offsetPlace[1] + surface[1],
                              position[S][2] + output.offsetPlace[2] + surface[2],
                              position[S][3] + output.placeOffset[3] + surface[3]
                                 + output.offsetPlace[3] + surface[3] >>
                 IN /\ raised' = NoError
                    /\ spawned' = spawned + 1
                    /\ new \notin DOMAIN userData
                    /\ new \in scene'
                    /\ userData'[new].selectableData.placedOn = S
                    /\ userData'[S].placeableData.placedObject
                           = Append(placeableDataOf(S).placedObject, new)
                    /\ userData'[S].placeableData.lastPlaceObjectPos
                           = Append(placeableDataOf(S).lastPlaceObjectPos,
                                    VSub(at, position[S]))
                    /\ position'[S] = position[S]
                    /\ position'[new] = at]_vars

\* the board was triggered at rest with the plate on it, then taken in hand and
\* moved, and the output was attached to it where it is held
OutputAtCompletionSeen ==
    /\ spawned = 1
    /\ pending = << >>
    /\ raised = NoError
    /\ isMovingSelectedObject
    /\ selectedObject = "talenan"
    /\ dragStart # NoDrag
    /\ position["talenan"] # dragStart.position["talenan"]
    /\ played # << >>
    /\ \E o \in DOMAIN userData :
          /\ userData[o].typeId = "ayam-dadu"
          /\ placedOnOf(o) = "talenan"
          /\ Last(placeableDataOf("talenan").placedObject) = o
          /\ position[o] = VAdd(position["talenan"],
                                Last(placeableDataOf("talenan").lastPlaceObjectPos))

-----------------------------------------------------------------------------
(* Properties of the cues *)

\* C31: a call of runRecipeLogic plays its cue once, in the step in which it
\* ends: a trigger that matches nothing plays the failure cue at once; a
\* trigger that matches a recipe has the ingredients consumed in that step and
\* plays the recipe's success cue there only if the recipe has no output, and
\* otherwise plays nothing until the completion that attaches the recipe's
\* last output, which plays the success cue; an earlier completion and a
\* failed construction play nothing.
OneCueAtTheEnd ==
    [][/\ Len(played') <= 1
       /\ (handleKeyDown /\ interactingObject # Null)
             => LET r == successRecipe(recipes, objectsInPlace(World, interactingObject))
                IN IF r = 0
                   THEN played' = failureCue /\ pending' = pending
                   ELSE /\ World' = consumeIngredients(World, interactingObject,
                                                       recipes[r], 1)
                        /\ IF recipes[r].output = << >>
                           THEN /\ played' = << [path |-> recipes[r].successSoundPath,
                                                 volume |-> 8] >>
                                /\ pending' = pending
                           ELSE /\ played' = << >>
                                /\ Len(pending') = Len(pending) + 1
       /\ \A k \in 1..Len(pending) :
             LET recipe == recipes[pending[k].recipe]
             IN /\ outputFailed(k) => played' = << >>
                /\ outputLoaded(k)
                     => IF pending[k].j < Len(recipe.output)
                        THEN played' = << >> /\ Len(pending') = Len(pending)
                        ELSE /\ played' = << [path |-> recipe.successSoundPath,
                                              volume |-> 8] >>
                             /\ Len(pending') = Len(pending) - 1
                             /\ spawned' = spawned + 1
                             /\ Len(userData'[pending[k].obj].placeableData.placedObject)
                                  = Len(placeableDataOf(pending[k].obj).placedObject) + 1]_vars

\* the one recipe of the table, which consumes an ingredient and has two
\* outputs, has just played its success cue: both outputs are on the board
OneCueAtTheEndSeen ==
    /\ played = << [path |-> "./sounds/chop.mp3", volume |-> 8] >>
    /\ pending = << >>
    /\ spawned = 2
    /\ Len(recipes) = 1
    /\ Len(recipes[1].output) = 2
    /\ ~consumesNothing(recipes[1])
    /\ { "ayam-dadu", "kubis-potong" } \subseteq typeIdsOn("talenan")

-----------------------------------------------------------------------------
(* Properties of the running system across triggers, ticks and drags *)

\* C32: an object a recipe has consumed is not the selected or dragged object,
\* not the placement candidate, and not attached to any host.
ConsumedOutOfPlay ==
    \A o \in consumedObjects :
        /\ selectedObject # o
        /\ currentPlaceableObject # o
        /\ hasSelectable(World, o) => placedOnOf(o) = Null
        /\ \A g \in hosts : o \notin Range(placeableDataOf(g).placedObject)

\* C33: a tick outside a drag sets selectedObject to the listed draggable
\* ancestor of the nearest hit on a draggable object if that hit is at most
\* 2.0 away and to null otherwise, and interactingObject likewise from the
\* hits on interactable objects and the interactable list, each whatever the
\* other is; as the hits come nearest first, each is also the ancestor of the
\* first hit of its kind that is at most 2.0 away.
HoverChosen ==
    [][(~isMovingSelectedObject /\ ~isMovingSelectedObject')
          => \A rayHits \in RayHitLists, reach \in CameraReach :
                LET on(list) ==
                        { i \in 1..Len(rayHits) :
                            findTopAncestorFrom(list, Null, rayHits[i].object) # Null }
                    nearest(I) == CHOOSE i \in I : \A j \in I : i <= j
                    within(I, maxDistance) ==
                        { i \in I : rayHits[i].distance <= maxDistance }
                    chosen(list, maxDistance) ==
                        IF on(list) = {} THEN Null
                        ELSE IF rayHits[nearest(on(list))].distance > maxDistance
                        THEN Null
                        ELSE findTopAncestorFrom(
                                 list, Null, rayHits[nearest(on(list))].object)
                    firstWithin(list, maxDistance) ==
                        IF within(on(list), maxDistance) = {} THEN Null
                        ELSE findTopAncestorFrom(
                                 list, Null,
                                 rayHits[nearest(within(on(list), maxDistance))].object)
                IN \/ ~checkRaycast(rayHits, reach)
                   \/ /\ selectedObject'
                            = chosen(draggableObjects, maxSelectedObjDistance)
                      /\ interactingObject'
                            = chosen(interactableObjects, maxInteractingObjDistance)
                      /\ selectedObject'
                            = firstWithin(draggableObjects, maxSelectedObjDistance)
                      /\ interactingObject'
                            = firstWithin(interactableObjects, maxInteractingObjDistance)
                      /\ raised' = NoError]_vars

\* a tick outside a drag has selected the plate and found the board to interact
\* with: the nearest draggable hit and the nearest interactable hit differ
HoverChosenSeen ==
    /\ ~isMovingSelectedObject
    /\ selectedObject = "plateSingle"
    /\ interactingObject = "talenan"
    /\ raised = NoError

\* C34: interactingObject and currentPlaceableObject are never both set; and
\* while a drag goes on interactingObject is never set anew: a step of the drag
\* either leaves it null or leaves it, the candidate and the dragged object's
\* position as they were, so that it is set during a drag (and a trigger can
\* start a recipe) only from the press until the first tick, which clears it.
HoverOrCandidate ==
    /\ [](interactingObject = Null \/ currentPlaceableObject = Null)
    /\ [][(isMovingSelectedObject /\ isMovingSelectedObject')
             => \/ interactingObject' = Null
                \/ /\ interactingObject' = interactingObject
                   /\ currentPlaceableObject' = Null
                   /\ skipped' = {}
                   /\ position'[selectedObject] = position[selectedObject]]_vars

\* a trigger has started a recipe on the board during a drag, after the press
\* and before a tick
HoverOrCandidateSeen ==
    /\ isMovingSelectedObject
    /\ interactingObject = "talenan"
    /\ currentPlaceableObject = Null
    /\ Triggered
    /\ pending # << >>

\* C35: the running system never raises the double-attach error: the attaches
\* of setupKitchen, of the releases and of the output completions are all
\* applied to objects whose placedOn is null.
NeverAttachedTwice ==
    /\ setupKitchen.error = NoError
    /\ raised # AlreadyPlaced

\* objects have been attached in all three ways: by the setup (the board on the
\* table), by a release (the plate on the board) and by a completion (an
\* output on the board)
NeverAttachedTwiceSeen ==
    /\ raised = NoError
    /\ ~isMovingSelectedObject
    /\ placedOnOf("talenan") = "table"
    /\ placedOnOf("plateSingle") = "talenan"
    /\ spawned = 1
    /\ "ayam-dadu" \in typeIdsOn("talenan")

\* C36: with the two recipes of setupRecipe, a trigger on the board issued
\* after an output of an earlier trigger has been attached to it matches no
\* recipe: it plays the failure cue and changes nothing.
OutputBlocksRematch ==
    (Triggered /\ spawned >= 1)
        => /\ recipes = setupRecipe
           /\ NoMatch
           /\ played = failureCue
           /\ World = before.world
           /\ pending = before.pending

\* the board held "ayam-filet" and "pisau", a trigger matched and its output
\* was attached, and the next trigger has just found the three types
OutputBlocksRematchSeen ==
    /\ Triggered
    /\ spawned = 1
    /\ pending = << >>
    /\ played = failureCue
    /\ typeIdsOn("talenan") = { "ayam-filet", "pisau", "ayam-dadu" }

\* C37: in the earlier script, whose tick passes over the dragged object only,
\* the attachment relation is acyclic in every reachable state: no object is a
\* member of its own descendant set.
AcyclicInScript ==
    \A X \in hosts : \A i \in 1..Len(placeableDataOf(X).placedObject) :
        X \notin {placeableDataOf(X).placedObject[i]}
                    \cup getAllChildsSet(World, placeableDataOf(X).placedObject[i])

-----------------------------------------------------------------------------
(* Properties of the background music *)

\* C38: the background music is started at most once, and the looping source
\* setBGMVolume controls is the only one playing.
OneBgmSource ==
    /\ Len(sources) <= 1
    /\ sources # << >> => bgmGainNode = 1

-----------------------------------------------------------------------------
(* Properties of getAllChildsSet *)

\* the objects host X lists
placedOnHost(X) ==
    IF X \in hosts
    THEN { placeableDataOf(X).placedObject[i] :
             i \in 1..Len(placeableDataOf(X).placedObject) }
    ELSE {}

\* the objects reached from the set S by n further attachment steps or fewer
RECURSIVE reachedWithin(_, _)
reachedWithin(S, n) ==
    IF n = 0 THEN S
    ELSE reachedWithin(S \cup UNION { placedOnHost(y) : y \in S }, n - 1)

\* the transitive closure of the placedObject relation from X
reachable(X) == reachedWithin(placedOnHost(X), Cardinality(DOMAIN userData))

acyclic == \A X \in DOMAIN userData : X \notin reachable(X)

\* C39: on an acyclic attachment configuration getAllChildsSet(X) is exactly the
\* set of objects reachable from X by one or more attachment steps, and it is
\* empty for an object without a placeable record.
ChildsSetIsClosure ==
    acyclic =>
        \A X \in DOMAIN userData :
            /\ getAllChildsSet(World, X) = reachable(X)
            /\ X \notin hosts => getAllChildsSet(World, X) = {}

\* an acyclic configuration with a host that reaches an object over two steps and
\* an object without a placeable record
ChildsSetIsClosureSeen ==
    /\ acyclic
    /\ \E X \in hosts : reachable(X) \ placedOnHost(X) # {}
    /\ \E X \in DOMAIN userData : X \notin hosts

====
